---- MODULE Spec2Model ----
(***************************************************************************)
(* Device side of a virtio split virtqueue: the Queue of                   *)
(* crates/virtio-queue/src/queue.rs over a byte-addressed guest memory.    *)
(*                                                                         *)
(* A 64-bit guest address is a tuple of four 16-bit limbs, least           *)
(* significant first, so that checked_add, the low/high 32-bit halves and  *)
(* the alignment masks are computed at their real width.  A u32 is a pair  *)
(* of 16-bit limbs.  Counters are u16 and wrap modulo 2^16.                *)
(***************************************************************************)
EXTENDS Integers, Sequences, FiniteSets, TLC

VARIABLES
    q,          \* the Queue struct (a record of its fields)
    mem,        \* guest memory: byte address -> byte, for the mapped region
    last,       \* the last operation and what it returned
    batch,      \* ghost: next_used values consumed by add_used since the last needs_notification call
    ev_cont,    \* ghost: event-index has been on since the last needs_notification call
    it,         \* the live AvailIter (it borrows the queue mutably), or None
    nyield,     \* ghost: chains the live AvailIter has yielded
    dev_pc,     \* where the device thread stands in a call or in its consumption loop
    dev_arg,    \* the arguments of the add_used call in progress
    en_val,     \* what the avail idx read of the enable_notification in progress returned
    elem_log,   \* ghost: the used elements add_used wrote, in order, as [pos, id, len]
    drv_pc,     \* where the driver stands between a publication and its notification decision
    drv_old,    \* the avail idx the driver had published before its current publication
    drv_seen,   \* the used idx the polling driver observed last
    kick,       \* a driver notification is pending for the device
    sweep,      \* the index the needs_notification sweep has evaluated
    passes,     \* ghost: passes of the consumption loop begun since the device entered it
    q0,         \* ghost: the queue as it was when the device entered the loop, or before its last reset
    adv,        \* ghost: where the loop stood at each avail idx store the driver made since
    chain,      \* the DescriptorChain the device is walking, or None
    wrote       \* ghost: <<position, head>> for each entry the driver wrote that iter has not yielded yet

usedGhost == <<batch, ev_cont>>
iterVars == <<it, nyield>>
devVars == <<dev_pc, dev_arg, en_val, elem_log>>
drvVars == <<drv_pc, drv_old, drv_seen, kick>>
loopVars == <<passes, q0, adv>>
vars == <<q, mem, last, batch, ev_cont, it, nyield, dev_pc, dev_arg, en_val, elem_log,
          drv_pc, drv_old, drv_seen, kick, sweep, passes, q0, adv, chain, wrote>>

-----------------------------------------------------------------------------
(* Bounds of the model *)

\* the max_size the device offers
MaxSize == 2
\* how far a counter may run from where it starts
MaxAdds == 4
\* largest batch of add_used calls between two needs_notification calls
MaxBatch == 3
\* bytes of mapped memory left after the used ring
MemSlack == 2
\* the mapped region starts at DescAlign * MemBaseUnits
MemBaseUnits == 1
\* a counter that starts before the wraparound starts at 2^16 - WrapMargin
WrapMargin == 2
\* avail idx stores the driver makes while the device runs its loop once
MaxDrvStores == 1
\* entries the driver has published when the device enters its loop
MaxPublished == 2

-----------------------------------------------------------------------------
(* Program constants *)

U16 == 65536
DescAlign == 16
AvailAlign == 2
UsedAlign == 4
IdxOffset == 2
DescriptorSize == 16
VIRTQ_USED_ELEMENT_SIZE == 8
VIRTQ_USED_RING_HEADER_SIZE == 4
VIRTQ_USED_RING_META_SIZE == 6
VIRTQ_AVAIL_ELEMENT_SIZE == 2
VIRTQ_AVAIL_RING_HEADER_SIZE == 4
VIRTQ_AVAIL_RING_META_SIZE == 6
VRING_USED_F_NO_NOTIFY == 1
DEFAULT_DESC_TABLE_ADDR == <<0, 0, 0, 0>>
DEFAULT_AVAIL_RING_ADDR == <<0, 0, 0, 0>>
DEFAULT_USED_RING_ADDR == <<0, 0, 0, 0>>

None == <<>>

-----------------------------------------------------------------------------
(* Fixed-width arithmetic *)

\* Wrapping<u16>: the value modulo 2^16
Wrap16(x) == x % U16

\* a small natural number as a 64-bit address
ToAddr(n) == <<n % U16, (n \div U16) % U16, 0, 0>>

\* GuestAddress::checked_add: None when the sum leaves the 64-bit space
checked_add(a, off) ==
    LET s0 == a[1] + off
        s1 == a[2] + (s0 \div U16)
        s2 == a[3] + (s1 \div U16)
        s3 == a[4] + (s2 \div U16)
    IN  IF s3 >= U16 THEN None
        ELSE <<s0 % U16, s1 % U16, s2 % U16, s3 % U16>>

\* GuestAddress::mask: the address bits under a mask of the form 2^k - 1, k <= 16
mask(a, m) == a[1] % (m + 1)

-----------------------------------------------------------------------------
(* Guest memory: one mapped region [MemBase, MemEnd) *)

MemBase == DescAlign * MemBaseUnits
DescBase == MemBase
AvailBase == DescBase + DescriptorSize * MaxSize
UsedBase == ((AvailBase + VIRTQ_AVAIL_RING_META_SIZE + VIRTQ_AVAIL_ELEMENT_SIZE * MaxSize
              + UsedAlign - 1) \div UsedAlign) * UsedAlign
MemEnd == UsedBase + VIRTQ_USED_RING_META_SIZE + VIRTQ_USED_ELEMENT_SIZE * MaxSize + MemSlack
MemAddrs == MemBase .. (MemEnd - 1)

\* the address as a number, for the addresses below 2^30
IsLow(a) == a[3] = 0 /\ a[4] = 0 /\ a[2] < 16384
AddrInt(a) == a[1] + U16 * a[2]

\* GuestMemory::address_in_range
address_in_range(a) == IsLow(a) /\ AddrInt(a) \in MemAddrs

\* little-endian bytes of a u16 and of a u32 (a pair of 16-bit limbs)
U16Bytes(v) == <<v % 256, v \div 256>>
U32Bytes(x) == U16Bytes(x[1]) \o U16Bytes(x[2])
U16FromBytes(b) == b[1] + 256 * b[2]
U32FromBytes(b) == <<b[1] + 256 * b[2], b[3] + 256 * b[4]>>

\* the bytes the guest sees at [a, a + n), for a region that is mapped
ReadBytes(m, a, n) == [i \in 1..n |-> m[a + i - 1]]

\* Bytes::write_obj: the bytes that fit in the region are written; the write
\* fails when the first byte is unmapped or when not every byte fits
write_obj(m, addr, bytes) ==
    IF ~address_in_range(addr) THEN [mem |-> m, err |-> "GuestMemory"]
    ELSE LET a == AddrInt(addr)
             n == IF a + Len(bytes) <= MemEnd THEN Len(bytes) ELSE MemEnd - a
         IN  [mem |-> [x \in MemAddrs |-> IF x >= a /\ x < a + n THEN bytes[x - a + 1] ELSE m[x]],
              err |-> IF n = Len(bytes) THEN "Ok" ELSE "GuestMemory"]

\* Bytes::store of a u16 converted with u16::to_le: all or nothing; an atomic
\* access, rejected at an address that is not a multiple of the size of a u16
store(m, val, addr) ==
    IF address_in_range(addr) /\ AddrInt(addr) + 1 \in MemAddrs /\ AddrInt(addr) % 2 = 0
    THEN LET a == AddrInt(addr)
             b == U16Bytes(val)
         IN  [mem |-> [m EXCEPT ![a] = b[1], ![a + 1] = b[2]], err |-> "Ok"]
    ELSE [mem |-> m, err |-> "GuestMemory"]

\* Bytes::load of a u16, converted with u16::from_le; atomic as store is
load(m, addr) ==
    IF address_in_range(addr) /\ AddrInt(addr) + 1 \in MemAddrs /\ AddrInt(addr) % 2 = 0
    THEN [val |-> U16FromBytes(ReadBytes(m, AddrInt(addr), 2)), err |-> "Ok"]
    ELSE [val |-> 0, err |-> "GuestMemory"]

\* VirtqUsedElem::new(id, len) as the bytes of { id: Le32, len: Le32 }
VirtqUsedElem(id, len) == U32Bytes(id) \o U32Bytes(len)

-----------------------------------------------------------------------------
(* Queue *)

\* Queue::new
new(max_size) ==
    [max_size |-> max_size,
     size |-> max_size,
     ready |-> FALSE,
     desc_table |-> DEFAULT_DESC_TABLE_ADDR,
     avail_ring |-> DEFAULT_AVAIL_RING_ADDR,
     used_ring |-> DEFAULT_USED_RING_ADDR,
     next_avail |-> 0,
     next_used |-> 0,
     event_idx_enabled |-> FALSE,
     num_added |-> 0]

\* the low and the high 32 bits of an address, and (high << 32) | low
Low32(a) == <<a[1], a[2]>>
High32(a) == <<a[3], a[4]>>
JoinAddr(high, low) == <<low[1], low[2], high[1], high[2]>>

\* Option::unwrap_or
unwrap_or(opt, default) == IF opt = None THEN default ELSE opt

\* the bitwise and of two naturals
RECURSIVE BitAnd(_, _)
BitAnd(a, b) ==
    IF a = 0 \/ b = 0 THEN 0
    ELSE (a % 2) * (b % 2) + 2 * BitAnd(a \div 2, b \div 2)

\* set_size without the test for zero
set_size_zero_bug(s, size) ==
    IF size > s.max_size \/ BitAnd(size, size - 1) # 0 THEN s
    ELSE [s EXCEPT !.size = size]

\* Queue::set_size
set_size(s, size) ==
    IF size > s.max_size \/ size = 0 \/ BitAnd(size, size - 1) # 0 THEN s
    ELSE [s EXCEPT !.size = size]

\* Queue::set_ready
set_ready(s, ready) == [s EXCEPT !.ready = ready]

\* set_desc_table_address that takes an omitted half as zero
set_desc_table_address_zero_bug(s, low, high) ==
    LET lo == unwrap_or(low, <<0, 0>>)
        hi == unwrap_or(high, <<0, 0>>)
        desc_table == JoinAddr(hi, lo)
    IN  IF mask(desc_table, DescAlign - 1) # 0 THEN s
        ELSE [s EXCEPT !.desc_table = desc_table]

\* Queue::set_desc_table_address
set_desc_table_address(s, low, high) ==
    LET lo == unwrap_or(low, Low32(s.desc_table))
        hi == unwrap_or(high, High32(s.desc_table))
        desc_table == JoinAddr(hi, lo)
    IN  IF mask(desc_table, DescAlign - 1) # 0 THEN s
        ELSE [s EXCEPT !.desc_table = desc_table]

\* Queue::set_avail_ring_address
set_avail_ring_address(s, low, high) ==
    LET lo == unwrap_or(low, Low32(s.avail_ring))
        hi == unwrap_or(high, High32(s.avail_ring))
        avail_ring == JoinAddr(hi, lo)
    IN  IF mask(avail_ring, AvailAlign - 1) # 0 THEN s
        ELSE [s EXCEPT !.avail_ring = avail_ring]

\* set_used_ring_address that tests the alignment of the available ring
set_used_ring_address_align_bug(s, low, high) ==
    LET lo == unwrap_or(low, Low32(s.used_ring))
        hi == unwrap_or(high, High32(s.used_ring))
        used_ring == JoinAddr(hi, lo)
    IN  IF mask(used_ring, AvailAlign - 1) # 0 THEN s
        ELSE [s EXCEPT !.used_ring = used_ring]

\* Queue::set_used_ring_address
set_used_ring_address(s, low, high) ==
    LET lo == unwrap_or(low, Low32(s.used_ring))
        hi == unwrap_or(high, High32(s.used_ring))
        used_ring == JoinAddr(hi, lo)
    IN  IF mask(used_ring, UsedAlign - 1) # 0 THEN s
        ELSE [s EXCEPT !.used_ring = used_ring]

\* Queue::set_event_idx
set_event_idx(s, enabled) == [s EXCEPT !.event_idx_enabled = enabled]

\* Queue::set_next_avail, Queue::set_next_used
set_next_avail(s, next_avail) == [s EXCEPT !.next_avail = next_avail]
set_next_used(s, next_used) == [s EXCEPT !.next_used = next_used]

\* Queue::avail_idx
avail_idx(s, m) ==
    LET addr == checked_add(s.avail_ring, IdxOffset)
    IN  IF addr = None THEN [val |-> 0, err |-> "AddressOverflow"]
        ELSE load(m, addr)

\* Queue::used_idx
used_idx(s, m) ==
    LET addr == checked_add(s.used_ring, IdxOffset)
    IN  IF addr = None THEN [val |-> 0, err |-> "AddressOverflow"]
        ELSE load(m, addr)

\* Queue::used_event: the used_event field that follows the available ring's elements
used_event(s, m) ==
    LET used_event_offset == VIRTQ_AVAIL_RING_HEADER_SIZE + s.size * VIRTQ_AVAIL_ELEMENT_SIZE
        used_event_addr == checked_add(s.avail_ring, used_event_offset)
    IN  IF used_event_addr = None THEN [val |-> 0, err |-> "AddressOverflow"]
        ELSE load(m, used_event_addr)

\* Queue::set_avail_event: the avail_event field that follows the used ring's elements
set_avail_event(s, m, val) ==
    LET avail_event_offset == VIRTQ_USED_RING_HEADER_SIZE + VIRTQ_USED_ELEMENT_SIZE * s.size
        addr == checked_add(s.used_ring, avail_event_offset)
    IN  IF addr = None THEN [mem |-> m, err |-> "AddressOverflow"]
        ELSE store(m, val, addr)

\* Queue::set_used_flags
set_used_flags(s, m, val) == store(m, val, s.used_ring)

\* set_notification whose disabling writes nothing, event-index on or off
set_notification_nodisable_bug(s, m, enable) ==
    IF enable
    THEN IF s.event_idx_enabled
         THEN set_avail_event(s, m, s.next_avail)
         ELSE set_used_flags(s, m, 0)
    ELSE [mem |-> m, err |-> "Ok"]

\* set_notification that publishes the avail idx it reads, not next_avail
set_notification_availidx_bug(s, m, enable) ==
    IF enable
    THEN IF s.event_idx_enabled
         THEN set_avail_event(s, m, avail_idx(s, m).val)
         ELSE set_used_flags(s, m, 0)
    ELSE IF ~s.event_idx_enabled
         THEN set_used_flags(s, m, VRING_USED_F_NO_NOTIFY)
         ELSE [mem |-> m, err |-> "Ok"]

\* Queue::set_notification
set_notification(s, m, enable) ==
    IF enable
    THEN IF s.event_idx_enabled
         THEN set_avail_event(s, m, s.next_avail)
         ELSE set_used_flags(s, m, 0)
    ELSE IF ~s.event_idx_enabled
         THEN set_used_flags(s, m, VRING_USED_F_NO_NOTIFY)
         ELSE [mem |-> m, err |-> "Ok"]

\* add_used_elem with the bound check off by one
add_used_elem_head_bug(s, m, head_index, len) ==
    IF head_index > s.size THEN [mem |-> m, err |-> "InvalidDescriptorIndex"]
    ELSE LET next_used_index == s.next_used % s.size
             offset == VIRTQ_USED_RING_HEADER_SIZE + next_used_index * VIRTQ_USED_ELEMENT_SIZE
             addr == checked_add(s.used_ring, offset)
         IN  IF addr = None THEN [mem |-> m, err |-> "AddressOverflow"]
             ELSE write_obj(m, addr, VirtqUsedElem(<<head_index, 0>>, len))

\* add_used_elem that refuses to touch memory while the queue is not ready
add_used_elem_gated_bug(s, m, head_index, len) ==
    IF ~s.ready THEN [mem |-> m, err |-> "GuestMemory"]
    ELSE IF head_index >= s.size THEN [mem |-> m, err |-> "InvalidDescriptorIndex"]
    ELSE LET next_used_index == s.next_used % s.size
             offset == VIRTQ_USED_RING_HEADER_SIZE + next_used_index * VIRTQ_USED_ELEMENT_SIZE
             addr == checked_add(s.used_ring, offset)
         IN  IF addr = None THEN [mem |-> m, err |-> "AddressOverflow"]
             ELSE write_obj(m, addr, VirtqUsedElem(<<head_index, 0>>, len))

\* add_used_elem with a wrapping addition for the checked one: the slot address
\* wraps round the address space and AddressOverflow is never reported
add_used_elem_wrap_bug(s, m, head_index, len) ==
    IF head_index >= s.size THEN [mem |-> m, err |-> "InvalidDescriptorIndex"]
    ELSE LET next_used_index == s.next_used % s.size
             offset == VIRTQ_USED_RING_HEADER_SIZE + next_used_index * VIRTQ_USED_ELEMENT_SIZE
             sum == checked_add(s.used_ring, offset)
             addr == IF sum = None THEN ToAddr((s.used_ring[1] + offset) % U16) ELSE sum
         IN  write_obj(m, addr, VirtqUsedElem(<<head_index, 0>>, len))

\* add_used_elem that takes next_used itself as the slot index
add_used_elem_nomod_bug(s, m, head_index, len) ==
    IF head_index >= s.size THEN [mem |-> m, err |-> "InvalidDescriptorIndex"]
    ELSE LET next_used_index == s.next_used
             offset == VIRTQ_USED_RING_HEADER_SIZE + next_used_index * VIRTQ_USED_ELEMENT_SIZE
             addr == checked_add(s.used_ring, offset)
         IN  IF addr = None THEN [mem |-> m, err |-> "AddressOverflow"]
             ELSE write_obj(m, addr, VirtqUsedElem(<<head_index, 0>>, len))

\* Queue::add_used up to the element write (lines 384-401): the queue is untouched
add_used_elem(s, m, head_index, len) ==
    IF head_index >= s.size THEN [mem |-> m, err |-> "InvalidDescriptorIndex"]
    ELSE LET next_used_index == s.next_used % s.size
             offset == VIRTQ_USED_RING_HEADER_SIZE + next_used_index * VIRTQ_USED_ELEMENT_SIZE
             addr == checked_add(s.used_ring, offset)
         IN  IF addr = None THEN [mem |-> m, err |-> "AddressOverflow"]
             ELSE write_obj(m, addr, VirtqUsedElem(<<head_index, 0>>, len))

\* add_used_publish with the counter incremented after the idx store
add_used_publish_stale_bug(s, m) ==
    LET s1 == [s EXCEPT !.next_used = Wrap16(@ + 1), !.num_added = Wrap16(@ + 1)]
        addr == checked_add(s.used_ring, IdxOffset)
    IN  IF addr = None THEN [q |-> s1, mem |-> m, err |-> "AddressOverflow"]
        ELSE LET st == store(m, s.next_used, addr)
             IN  [q |-> s1, mem |-> st.mem, err |-> st.err]

\* add_used_publish that stores num_added in the idx field
add_used_publish_num_added_bug(s, m) ==
    LET s1 == [s EXCEPT !.next_used = Wrap16(@ + 1), !.num_added = Wrap16(@ + 1)]
        addr == checked_add(s.used_ring, IdxOffset)
    IN  IF addr = None THEN [q |-> s1, mem |-> m, err |-> "AddressOverflow"]
        ELSE LET st == store(m, s1.num_added, addr)
             IN  [q |-> s1, mem |-> st.mem, err |-> st.err]

\* Queue::add_used from the counter increments to the idx store (lines 403-413)
add_used_publish(s, m) ==
    LET s1 == [s EXCEPT !.next_used = Wrap16(@ + 1), !.num_added = Wrap16(@ + 1)]
        addr == checked_add(s.used_ring, IdxOffset)
    IN  IF addr = None THEN [q |-> s1, mem |-> m, err |-> "AddressOverflow"]
        ELSE LET st == store(m, s1.next_used, addr)
             IN  [q |-> s1, mem |-> st.mem, err |-> st.err]

\* add_used_step with the idx published before the element is written
add_used_step_swap_bug(k, s, m, head_index, len) ==
    IF k = 1 THEN add_used_publish(s, m)
    ELSE LET w == add_used_elem(s, m, head_index, len)
         IN  [q |-> s, mem |-> w.mem, err |-> w.err]

\* Queue::add_used in program order: step 1 is the element write (lines 384-401),
\* step 2 the counter increments and the idx store (lines 403-413)
add_used_step(k, s, m, head_index, len) ==
    IF k = 1
    THEN LET w == add_used_elem(s, m, head_index, len)
         IN  [q |-> s, mem |-> w.mem, err |-> w.err]
    ELSE add_used_publish(s, m)

\* Queue::add_used
add_used(s, m, head_index, len) ==
    LET a == add_used_step(1, s, m, head_index, len)
    IN  IF a.err # "Ok" THEN a
        ELSE add_used_step(2, a.q, a.mem, head_index, len)

\* enable_notification_step with the avail idx read before notifications are armed
enable_notification_step_swap_bug(k, s, m) ==
    IF k = 1
    THEN LET idx == avail_idx(s, m)
         IN  [mem |-> m, err |-> idx.err, read |-> TRUE,
              val |-> idx.err = "Ok" /\ idx.val # s.next_avail]
    ELSE LET n == set_notification(s, m, TRUE)
         IN  [mem |-> n.mem, err |-> n.err, read |-> FALSE, val |-> FALSE]

\* enable_notification_step that compares the indices by order, not with !=
enable_notification_step_gt_bug(k, s, m) ==
    IF k = 1
    THEN LET n == set_notification(s, m, TRUE)
         IN  [mem |-> n.mem, err |-> n.err, read |-> FALSE, val |-> FALSE]
    ELSE LET idx == avail_idx(s, m)
         IN  [mem |-> m, err |-> idx.err, read |-> TRUE,
              val |-> idx.err = "Ok" /\ idx.val > s.next_avail]

\* Queue::enable_notification in program order: step 1 arms (line 437), step 2,
\* after the fence, reads avail idx and compares it with next_avail (lines 447-448)
enable_notification_step(k, s, m) ==
    IF k = 1
    THEN LET n == set_notification(s, m, TRUE)
         IN  [mem |-> n.mem, err |-> n.err, read |-> FALSE, val |-> FALSE]
    ELSE LET idx == avail_idx(s, m)
         IN  [mem |-> m, err |-> idx.err, read |-> TRUE,
              val |-> idx.err = "Ok" /\ idx.val # s.next_avail]

\* enable_notification that arms and does not look at avail idx again
enable_notification_blind_bug(s, m) ==
    LET a == enable_notification_step(1, s, m)
    IN  [mem |-> a.mem, err |-> a.err, val |-> FALSE]

\* Queue::enable_notification
enable_notification(s, m) ==
    LET a == enable_notification_step(1, s, m)
    IN  IF a.err # "Ok" THEN [mem |-> a.mem, err |-> a.err, val |-> FALSE]
        ELSE LET b == enable_notification_step(2, s, a.mem)
             IN  [mem |-> b.mem, err |-> b.err,
                  val |-> b.err = "Ok" /\ (IF b.read THEN b.val ELSE a.val)]

\* Queue::disable_notification
disable_notification(s, m) == set_notification(s, m, FALSE)

\* need_event in plain integers, without the wrap of each difference to u16
need_event_signed_bug(used_idx_, used_event_, old) ==
    used_idx_ - used_event_ - 1 < used_idx_ - old

\* need_event with <= for <
need_event_le_bug(used_idx_, used_event_, old) ==
    Wrap16(Wrap16(used_idx_ - used_event_) - 1) <= Wrap16(used_idx_ - old)

\* the comparison of Queue::needs_notification (line 483), in Wrapping<u16> arithmetic
need_event(used_idx_, used_event_, old) ==
    Wrap16(Wrap16(used_idx_ - used_event_) - 1) < Wrap16(used_idx_ - old)

\* needs_notification that evaluates the threshold whether or not event-index is on
needs_notification_flag_bug(s, m) ==
    LET used_idx_ == s.next_used
        ue == used_event(s, m)
    IN  IF ue.err # "Ok" THEN [q |-> s, err |-> ue.err, val |-> FALSE]
        ELSE LET old == Wrap16(used_idx_ - s.num_added)
             IN  [q |-> [s EXCEPT !.num_added = 0], err |-> "Ok",
                  val |-> need_event(used_idx_, ue.val, old)]

\* needs_notification that forgets to reset num_added
needs_notification_keep_bug(s, m) ==
    LET used_idx_ == s.next_used
    IN  IF s.event_idx_enabled
        THEN LET ue == used_event(s, m)
             IN  IF ue.err # "Ok" THEN [q |-> s, err |-> ue.err, val |-> FALSE]
                 ELSE LET old == Wrap16(used_idx_ - s.num_added)
                      IN  [q |-> s, err |-> "Ok",
                           val |-> need_event(used_idx_, ue.val, old)]
        ELSE [q |-> s, err |-> "Ok", val |-> TRUE]

\* needs_notification with plain u16 subtraction for the Wrapping one: the
\* subtraction overflows, and panics, when num_added is above next_used
needs_notification_overflow_bug(s, m) ==
    LET used_idx_ == s.next_used
    IN  IF s.event_idx_enabled
        THEN LET ue == used_event(s, m)
             IN  IF ue.err # "Ok" THEN [q |-> s, err |-> ue.err, val |-> FALSE]
                 ELSE IF used_idx_ < s.num_added THEN [q |-> s, err |-> "Panic", val |-> FALSE]
                 ELSE LET old == used_idx_ - s.num_added
                      IN  [q |-> [s EXCEPT !.num_added = 0], err |-> "Ok",
                           val |-> need_event(used_idx_, ue.val, old)]
        ELSE [q |-> s, err |-> "Ok", val |-> TRUE]

\* Queue::needs_notification
needs_notification(s, m) ==
    LET used_idx_ == s.next_used
    IN  IF s.event_idx_enabled
        THEN LET ue == used_event(s, m)
             IN  IF ue.err # "Ok" THEN [q |-> s, err |-> ue.err, val |-> FALSE]
                 ELSE LET old == Wrap16(used_idx_ - s.num_added)
                      IN  [q |-> [s EXCEPT !.num_added = 0], err |-> "Ok",
                           val |-> need_event(used_idx_, ue.val, old)]
        ELSE [q |-> s, err |-> "Ok", val |-> TRUE]

\* is_valid that lets a ring whose end overflows the address space pass
\* (map_or(false, ..) for map_or(true, ..))
is_valid_overflow_bug(s, m) ==
    LET out(a, n) == LET v == checked_add(a, n) IN v # None /\ ~address_in_range(v)
    IN  /\ s.ready
        /\ ~out(s.desc_table, DescriptorSize * s.size)
        /\ ~out(s.avail_ring, VIRTQ_AVAIL_RING_META_SIZE + VIRTQ_AVAIL_ELEMENT_SIZE * s.size)
        /\ ~out(s.used_ring, VIRTQ_USED_RING_META_SIZE + VIRTQ_USED_ELEMENT_SIZE * s.size)

\* is_valid that accepts a queue which is not ready
is_valid_ready_bug(s, m) ==
    LET out(a, n) == LET v == checked_add(a, n) IN v = None \/ ~address_in_range(v)
    IN  /\ ~out(s.desc_table, DescriptorSize * s.size)
        /\ ~out(s.avail_ring, VIRTQ_AVAIL_RING_META_SIZE + VIRTQ_AVAIL_ELEMENT_SIZE * s.size)
        /\ ~out(s.used_ring, VIRTQ_USED_RING_META_SIZE + VIRTQ_USED_ELEMENT_SIZE * s.size)

\* Queue::is_valid: ready, and for each ring the address base + size, if the sum
\* does not overflow, is an address of the memory (map_or(true, |v| !address_in_range(v)))
is_valid(s, m) ==
    LET queue_size == s.size
        desc_table_size == DescriptorSize * queue_size
        avail_ring_size == VIRTQ_AVAIL_RING_META_SIZE + VIRTQ_AVAIL_ELEMENT_SIZE * queue_size
        used_ring_size == VIRTQ_USED_RING_META_SIZE + VIRTQ_USED_ELEMENT_SIZE * queue_size
        out(a, n) == LET v == checked_add(a, n) IN v = None \/ ~address_in_range(v)
    IN  IF ~s.ready THEN FALSE
        ELSE IF out(s.desc_table, desc_table_size) THEN FALSE
        ELSE IF out(s.avail_ring, avail_ring_size) THEN FALSE
        ELSE IF out(s.used_ring, used_ring_size) THEN FALSE
        ELSE TRUE

\* reset that leaves num_added as it was
reset_num_added_bug(s) ==
    [s EXCEPT !.ready = FALSE,
              !.size = s.max_size,
              !.desc_table = DEFAULT_DESC_TABLE_ADDR,
              !.avail_ring = DEFAULT_AVAIL_RING_ADDR,
              !.used_ring = DEFAULT_USED_RING_ADDR,
              !.next_avail = 0,
              !.next_used = 0,
              !.event_idx_enabled = FALSE]

\* Queue::reset
reset(s) ==
    [s EXCEPT !.ready = FALSE,
              !.size = s.max_size,
              !.desc_table = DEFAULT_DESC_TABLE_ADDR,
              !.avail_ring = DEFAULT_AVAIL_RING_ADDR,
              !.used_ring = DEFAULT_USED_RING_ADDR,
              !.next_avail = 0,
              !.next_used = 0,
              !.num_added = 0,
              !.event_idx_enabled = FALSE]

\* go_to_previous_position with a subtraction that stops at 0
go_to_previous_position_saturating_bug(s) ==
    [s EXCEPT !.next_avail = IF @ = 0 THEN 0 ELSE @ - 1]

\* Queue::go_to_previous_position
go_to_previous_position(s) == [s EXCEPT !.next_avail = Wrap16(@ - 1)]

\* AvailIter::new: the iterator over the ring positions next_avail .. idx
AvailIter_new(idx, s) ==
    [desc_table |-> s.desc_table, avail_ring |-> s.avail_ring,
     queue_size |-> s.size, last_index |-> idx]

\* AvailIter::next: nothing when next_avail has reached the index read by iter or
\* when the ring entry cannot be read; else the head stored at ring position
\* next_avail mod size, and next_avail advanced by one
AvailIter_next(itr, s, m) ==
    IF s.next_avail = itr.last_index \/ itr.queue_size = 0
    THEN [q |-> s, some |-> FALSE, head |-> 0]
    ELSE LET offset == VIRTQ_AVAIL_RING_HEADER_SIZE
                         + (s.next_avail % itr.queue_size) * VIRTQ_AVAIL_ELEMENT_SIZE
             addr == checked_add(itr.avail_ring, offset)
             ld == IF addr = None THEN [val |-> 0, err |-> "AddressOverflow"] ELSE load(m, addr)
         IN  IF ld.err # "Ok" THEN [q |-> s, some |-> FALSE, head |-> 0]
             ELSE [q |-> [s EXCEPT !.next_avail = Wrap16(@ + 1)], some |-> TRUE, head |-> ld.val]

\* iter that takes the end of the pass from the used ring's idx
iter_used_bug(s, m) ==
    LET idx == used_idx(s, m)
    IN  IF idx.err # "Ok" THEN [it |-> None, err |-> idx.err]
        ELSE [it |-> AvailIter_new(idx.val, s), err |-> "Ok"]

\* iter whose iterator runs one entry past the avail idx it read
iter_ahead_bug(s, m) ==
    LET idx == avail_idx(s, m)
    IN  IF idx.err # "Ok" THEN [it |-> None, err |-> idx.err]
        ELSE [it |-> AvailIter_new(Wrap16(idx.val + 1), s), err |-> "Ok"]

\* Queue::iter
iter(s, m) ==
    LET idx == avail_idx(s, m)
    IN  IF idx.err # "Ok" THEN [it |-> None, err |-> idx.err]
        ELSE [it |-> AvailIter_new(idx.val, s), err |-> "Ok"]

\* pop_descriptor_chain that moves next_avail on when iter fails
pop_descriptor_chain_skip_bug(s, m) ==
    LET r == iter(s, m)
    IN  IF r.err # "Ok"
        THEN [q |-> [s EXCEPT !.next_avail = Wrap16(@ + 1)], some |-> FALSE, head |-> 0]
        ELSE AvailIter_next(r.it, s, m)

\* Queue::pop_descriptor_chain: the first item of a new iterator, or None when
\* iter fails
pop_descriptor_chain(s, m) ==
    LET r == iter(s, m)
    IN  IF r.err # "Ok" THEN [q |-> s, some |-> FALSE, head |-> 0]
        ELSE AvailIter_next(r.it, s, m)

-----------------------------------------------------------------------------
(* What the driver sees in the rings it configured at AvailBase and UsedBase *)

U16At(m, a) == m[a] + 256 * m[a + 1]
UsedFlagsOf(m) == U16At(m, UsedBase)
UsedIdxOf(m) == U16At(m, UsedBase + 2)
\* the used-ring element in a slot, as { id, len } with each u32 a pair of 16-bit limbs
UsedElemOf(m, slot) ==
    [id  |-> <<U16At(m, UsedBase + 4 + 8 * slot), U16At(m, UsedBase + 4 + 8 * slot + 2)>>,
     len |-> <<U16At(m, UsedBase + 4 + 8 * slot + 4), U16At(m, UsedBase + 4 + 8 * slot + 6)>>]
UsedSlotBytes(m) == [a \in (UsedBase + 4) .. (MemEnd - 1) |-> m[a]]
AvailEventOf(m, size) == U16At(m, UsedBase + 4 + 8 * size)
AvailIdxOf(m) == U16At(m, AvailBase + 2)
AvailRingOf(m, slot) == U16At(m, AvailBase + 4 + 2 * slot)
UsedEventOf(m, size) == U16At(m, AvailBase + 4 + 2 * size)

\* x lies in the circular interval (lo, hi] / [lo, hi) of the 16-bit index space
InOpenClosed(x, lo, hi) == \E k \in 1..Wrap16(hi - lo) : x = Wrap16(lo + k)
InClosedOpen(x, lo, hi) == \E k \in 0..(Wrap16(hi - lo) - 1) : x = Wrap16(lo + k)

-----------------------------------------------------------------------------
(* The device model's calls and the driver's memory writes, as actions *)

\* the queue as the transport leaves it: new(max_size), then the driver's
\* configuration writes (ring addresses inside the mapped region, ready)
Configured(size) ==
    set_ready(
        set_used_ring_address(
            set_avail_ring_address(
                set_desc_table_address(set_size(new(MaxSize), size),
                                       Low32(ToAddr(DescBase)), None),
                Low32(ToAddr(AvailBase)), None),
            Low32(ToAddr(UsedBase)), None),
        TRUE)

\* what the calls are given
Heads == 0..MaxSize
Lens == {<<4096, 0>>, <<22136, 4660>>}
\* where a restored queue's counters start, and the window they run in
Starts == {0, U16 - WrapMargin}
InWindow(x) == Wrap16(x + WrapMargin) < MaxAdds + WrapMargin
Window == {Wrap16(k - WrapMargin) : k \in 0..(MaxAdds + WrapMargin)}
UsedEvents == {U16 - WrapMargin, U16 - 1, 0, 1, 2}

NoOp == [op |-> "none", err |-> "Ok", val |-> FALSE, head |-> 0, len |-> <<0, 0>>]
Ret(op, err, val, head, len) == [op |-> op, err |-> err, val |-> val, head |-> head, len |-> len]
NoArg == [head |-> 0, len |-> <<0, 0>>]

ZeroMem == [a \in MemAddrs |-> 0]

\* no iterator, no call in progress, a driver at rest
NoIter == it = None /\ nyield = 0
DevAtRest == dev_pc = "idle" /\ dev_arg = NoArg /\ en_val = FALSE /\ elem_log = <<>>
DrvAtRest == drv_pc = "idle" /\ drv_old = 0 /\ drv_seen = 0 /\ kick = FALSE
LoopAtRest == passes = 0 /\ q0 = None /\ adv = <<>>

\* a queue restored at used index n over a used ring whose idx is n
Init ==
    /\ \E size \in 1..MaxSize, n \in Starts :
          /\ q = set_next_used(Configured(size), n)
          /\ mem = store(ZeroMem, n, ToAddr(UsedBase + IdxOffset)).mem
    /\ last = NoOp
    /\ batch = {}
    /\ ev_cont = FALSE
    /\ NoIter /\ DevAtRest /\ DrvAtRest
    /\ sweep = -1
    /\ LoopAtRest /\ chain = None /\ wrote = {}

AddUsed(head, len) ==
    /\ it = None
    /\ InWindow(q.next_used)
    /\ q.num_added < MaxBatch
    /\ LET r == add_used(q, mem, head, len)
       IN  /\ q' = r.q
           /\ mem' = r.mem
           /\ last' = Ret("add_used", r.err, FALSE, head, len)
           /\ batch' = IF r.err = "Ok" THEN batch \cup {q.next_used} ELSE batch
    /\ UNCHANGED <<ev_cont, iterVars, devVars, drvVars, sweep, loopVars, chain, wrote>>

NeedsNotification ==
    /\ it = None
    /\ LET r == needs_notification(q, mem)
       IN  /\ q' = r.q
           /\ last' = Ret("needs_notification", r.err, r.val, 0, <<0, 0>>)
    /\ batch' = {}
    /\ ev_cont' = (q.event_idx_enabled /\ last'.err = "Ok")
    /\ UNCHANGED <<mem, iterVars, devVars, drvVars, sweep, loopVars, chain, wrote>>

SetEventIdx(enabled) ==
    /\ it = None
    /\ q' = set_event_idx(q, enabled)
    /\ last' = NoOp
    /\ ev_cont' = (ev_cont /\ enabled)
    /\ UNCHANGED <<mem, batch, iterVars, devVars, drvVars, sweep, loopVars, chain, wrote>>

\* the driver publishes a used_event threshold after the elements of the available ring
DriverSetUsedEvent(v) ==
    /\ mem' = [mem EXCEPT ![AvailBase + 4 + 2 * q.size] = v % 256,
                          ![AvailBase + 4 + 2 * q.size + 1] = v \div 256]
    /\ last' = NoOp
    /\ UNCHANGED <<q, usedGhost, iterVars, devVars, drvVars, sweep, loopVars, chain, wrote>>

Next ==
    \/ \E head \in Heads, len \in Lens : AddUsed(head, len)
    \/ NeedsNotification
    \/ \E enabled \in BOOLEAN : SetEventIdx(enabled)
    \/ \E v \in UsedEvents : DriverSetUsedEvent(v)

Spec == Init /\ [][Next]_vars

-----------------------------------------------------------------------------
(* The available side: notification suppression and the available-ring cursor *)

\* a queue restored at available index n, the driver having published up to n
AvailInit ==
    /\ \E size \in 1..MaxSize, n \in Starts :
          /\ q = set_next_avail(Configured(size), n)
          /\ mem = [ZeroMem EXCEPT ![AvailBase + 2] = n % 256, ![AvailBase + 3] = n \div 256]
    /\ last = NoOp
    /\ batch = {}
    /\ ev_cont = FALSE
    /\ NoIter /\ DevAtRest /\ DrvAtRest
    /\ sweep = -1
    /\ LoopAtRest /\ chain = None /\ wrote = {}

DisableNotification ==
    /\ it = None
    /\ LET r == disable_notification(q, mem)
       IN  /\ mem' = r.mem
           /\ last' = Ret("disable_notification", r.err, FALSE, 0, <<0, 0>>)
    /\ UNCHANGED <<q, usedGhost, iterVars, devVars, drvVars, sweep, loopVars, chain, wrote>>

EnableNotification ==
    /\ it = None
    /\ LET r == enable_notification(q, mem)
       IN  /\ mem' = r.mem
           /\ last' = Ret("enable_notification", r.err, r.val, 0, <<0, 0>>)
    /\ UNCHANGED <<q, usedGhost, iterVars, devVars, drvVars, sweep, loopVars, chain, wrote>>

Iter ==
    /\ it = None
    /\ LET r == iter(q, mem)
       IN  /\ it' = r.it
           /\ last' = Ret("iter", r.err, FALSE, 0, <<0, 0>>)
    /\ nyield' = 0
    /\ UNCHANGED <<q, mem, usedGhost, devVars, drvVars, sweep, loopVars, chain, wrote>>

IterNext ==
    /\ it # None
    /\ InWindow(q.next_avail) \/ q.next_avail = it.last_index
    /\ LET r == AvailIter_next(it, q, mem)
       IN  /\ q' = r.q
           /\ last' = Ret("iter_next", "Ok", r.some, r.head, <<0, 0>>)
           /\ nyield' = IF r.some THEN nyield + 1 ELSE nyield
    /\ UNCHANGED <<mem, it, usedGhost, devVars, drvVars, sweep, loopVars, chain, wrote>>

IterDrop ==
    /\ it # None
    /\ it' = None
    /\ nyield' = 0
    /\ last' = NoOp
    /\ UNCHANGED <<q, mem, usedGhost, devVars, drvVars, sweep, loopVars, chain, wrote>>

\* the driver stores an avail idx (a conforming driver only ever increments it)
DriverSetAvailIdx(v) ==
    /\ mem' = [mem EXCEPT ![AvailBase + 2] = v % 256, ![AvailBase + 3] = v \div 256]
    /\ last' = NoOp
    /\ UNCHANGED <<q, usedGhost, iterVars, devVars, drvVars, sweep, loopVars, chain, wrote>>

\* the driver stores a head index in a slot of the available ring
DriverSetAvailRing(slot, head) ==
    /\ mem' = [mem EXCEPT ![AvailBase + 4 + 2 * slot] = head % 256,
                          ![AvailBase + 4 + 2 * slot + 1] = head \div 256]
    /\ mem' # mem
    /\ last' = NoOp
    /\ UNCHANGED <<q, usedGhost, iterVars, devVars, drvVars, sweep, loopVars, chain, wrote>>

AvailNext ==
    \/ DisableNotification
    \/ EnableNotification
    \/ Iter
    \/ IterNext
    \/ IterDrop
    \/ \E enabled \in BOOLEAN : SetEventIdx(enabled)
    \/ \E v \in Window : DriverSetAvailIdx(v)
    \/ \E slot \in 0..(q.size - 1), head \in 0..(MaxSize - 1) : DriverSetAvailRing(slot, head)

AvailSpec == AvailInit /\ [][AvailNext]_vars

-----------------------------------------------------------------------------
(* Descriptors and the walk of one descriptor chain *)

VRING_DESC_F_NEXT == 1
VRING_DESC_F_WRITE == 2
VRING_DESC_F_INDIRECT == 4
FlagsOffset == 12
NextOffset == 14

\* what a call that reaches unimplemented!() gives: a panic, no u16
Unimplemented == -1

\* a split descriptor decoded from its 16 little-endian bytes
\* { addr: u64, len: u32, flags: u16, next: u16 }
SplitDescriptor(b) ==
    [kind |-> "SplitDescriptor",
     addr |-> <<U16FromBytes(SubSeq(b, 1, 2)), U16FromBytes(SubSeq(b, 3, 4)),
                U16FromBytes(SubSeq(b, 5, 6)), U16FromBytes(SubSeq(b, 7, 8))>>,
     len |-> U32FromBytes(SubSeq(b, 9, 12)),
     flags |-> U16FromBytes(SubSeq(b, 13, 14)),
     next |-> U16FromBytes(SubSeq(b, 15, 16))]

\* a packed descriptor decoded from its 16 little-endian bytes
\* { addr: Le64, len: Le32, id: Le16, flags: Le16 }
PackedDescriptor(b) ==
    [kind |-> "PackedDescriptor",
     addr |-> <<U16FromBytes(SubSeq(b, 1, 2)), U16FromBytes(SubSeq(b, 3, 4)),
                U16FromBytes(SubSeq(b, 5, 6)), U16FromBytes(SubSeq(b, 7, 8))>>,
     len |-> U32FromBytes(SubSeq(b, 9, 12)),
     id |-> U16FromBytes(SubSeq(b, 13, 14)),
     flags |-> U16FromBytes(SubSeq(b, 15, 16))]

\* Descriptor::flags
flags(desc) == desc.flags

\* next that answers for a packed descriptor with the 16 bits stored where a
\* split descriptor keeps its next field
next_packed_bug(desc) ==
    IF desc.kind = "SplitDescriptor" THEN desc.next ELSE desc.flags

\* Descriptor::next: the next field of a split descriptor; unimplemented for a
\* packed one
next(desc) ==
    IF desc.kind = "SplitDescriptor" THEN desc.next ELSE Unimplemented

\* Descriptor::refers_to_indirect_table
refers_to_indirect_table(desc) ==
    BitAnd(flags(desc), VRING_DESC_F_INDIRECT) # 0

\* Descriptor::has_next
has_next(desc) == BitAnd(flags(desc), VRING_DESC_F_NEXT) # 0

\* Descriptor::is_write_only
is_write_only(desc) == BitAnd(flags(desc), VRING_DESC_F_WRITE) # 0

\* Bytes::read_obj of one descriptor: every byte of it must be mapped
read_desc(m, addr) ==
    IF address_in_range(addr) /\ AddrInt(addr) + DescriptorSize <= MemEnd
    THEN [desc |-> SplitDescriptor(ReadBytes(m, AddrInt(addr), DescriptorSize)), err |-> "Ok"]
    ELSE [desc |-> None, err |-> "GuestMemory"]

\* the walker of the chain that starts at head_index in the queue's table: it
\* may yield as many descriptors as the table has
DescriptorChain_new(s, head_index) ==
    [desc_table |-> s.desc_table,
     queue_size |-> s.size,
     head_index |-> head_index,
     next_index |-> head_index,
     ttl |-> s.size,
     is_indirect |-> FALSE]

\* the walker turns to the indirect table that desc describes, addr its start
\* and len its size in bytes, and may yield as many descriptors as that table
\* has; None when the walker is in an indirect table already, when len is no
\* multiple of the size of a descriptor, or when the table has more entries
\* than a u16 counts
switch_to_indirect_table(c, desc) ==
    LET table_len == desc.len[2] * (U16 \div DescriptorSize) + desc.len[1] \div DescriptorSize
    IN  IF c.is_indirect \/ desc.len[1] % DescriptorSize # 0 \/ table_len > U16 - 1
        THEN None
        ELSE [c EXCEPT !.desc_table = desc.addr, !.queue_size = table_len,
                       !.next_index = 0, !.ttl = table_len, !.is_indirect = TRUE]

\* the walker's step: nothing when the current index is no index of the table
\* or the descriptor there cannot be read; a descriptor that refers to an
\* indirect table is not yielded, the walk goes on with the first descriptor of
\* that table; any other descriptor is yielded, and while its NEXT flag is set
\* the walk follows its next field; each descriptor yielded takes one of the
\* links the walk is allowed in its table
RECURSIVE DescriptorChain_next(_, _)
DescriptorChain_next(c, m) ==
    LET addr == checked_add(c.desc_table, DescriptorSize * c.next_index)
        r == IF addr = None THEN [desc |-> None, err |-> "AddressOverflow"]
             ELSE read_desc(m, addr)
        t == switch_to_indirect_table(c, r.desc)
    IN  IF c.ttl = 0 \/ c.next_index >= c.queue_size \/ r.err # "Ok"
        THEN [c |-> c, desc |-> None]
        ELSE IF refers_to_indirect_table(r.desc)
             THEN (IF t = None THEN [c |-> c, desc |-> None] ELSE DescriptorChain_next(t, m))
             ELSE IF has_next(r.desc)
             THEN [c |-> [c EXCEPT !.next_index = next(r.desc), !.ttl = @ - 1], desc |-> r.desc]
             ELSE [c |-> [c EXCEPT !.ttl = 0], desc |-> r.desc]

\* chain.for_each of the consumption loop, from the walker c on: acc plus the
\* len of every descriptor yielded that carries VRING_DESC_F_WRITE. The sum is
\* a u32: len is the sum modulo 2^32, overflow tells that an addition passed
\* 2^32 - 1, where a build with overflow checks panics
RECURSIVE desc_len_from(_, _, _)
desc_len_from(c, m, acc) ==
    LET r == DescriptorChain_next(c, m)
        lo == acc.len[1] + r.desc.len[1]
        hi == acc.len[2] + r.desc.len[2] + (lo \div U16)
    IN  IF r.desc = None THEN acc
        ELSE desc_len_from(r.c, m,
                 IF BitAnd(flags(r.desc), VRING_DESC_F_WRITE) = VRING_DESC_F_WRITE
                 THEN [len |-> <<lo % U16, hi % U16>>, overflow |-> acc.overflow \/ hi >= U16]
                 ELSE acc)

\* desc_len of the chain the iterator yielded for head_index
desc_len(s, m, head_index) ==
    desc_len_from(DescriptorChain_new(s, head_index), m, [len |-> <<0, 0>>, overflow |-> FALSE])

\* descriptor i as test_consume_chains_with_notif stores it:
\* Descriptor::new(0x1000 * (i + 1), 0x1000, flags, i + 1), flags 0 where a
\* chain ends (1, 4, 6, 8, 12) and VRING_DESC_F_NEXT elsewhere, each with the
\* bits w added; len is the test's 0x1000 or another u32, as two 16-bit limbs
TestDescBytes(i, w, len) ==
    LET a == 4096 * (i + 1)
        f == (IF i \in {1, 4, 6, 8, 12} THEN 0 ELSE VRING_DESC_F_NEXT) + w
        n == i + 1
    IN  <<a % 256, (a \div 256) % 256, (a \div U16) % 256, 0, 0, 0, 0, 0,
          len[1] % 256, len[1] \div 256, len[2] % 256, len[2] \div 256,
          f % 256, f \div 256, n % 256, n \div 256>>

\* the memory the test sets up, at the model's size: the descriptor table, and
\* in ring slot j a head as in the test, which here is j: the test's heads 0,
\* 2, 5, 7, 9 are indexes of a table of 16
TestMem(w, len) ==
    [a \in MemAddrs |->
        IF a >= DescBase /\ a < DescBase + DescriptorSize * MaxSize
        THEN TestDescBytes((a - DescBase) \div DescriptorSize, w, len)[((a - DescBase) % DescriptorSize) + 1]
        ELSE IF a >= AvailBase + 4 /\ a < AvailBase + 4 + 2 * MaxSize
        THEN (IF (a - AvailBase) % 2 = 0 THEN ((a - AvailBase - 4) \div 2) % 256
              ELSE ((a - AvailBase - 4) \div 2) \div 256)
        ELSE 0]

-----------------------------------------------------------------------------
(* The device walks chains of a descriptor table the driver writes at will *)

\* what the driver writes into a descriptor. flags: none, NEXT, NEXT with
\* WRITE, INDIRECT; next: the first and the last index of the largest table and
\* one whose descriptor lies outside the memory; len of a descriptor that
\* refers to an indirect table, which starts where descriptor 1 lies: 0, two
\* descriptors, and a size that is no multiple of a descriptor. The heads the
\* device is handed: every index of the table, the index after it, and one
\* outside the memory
DescFlags == {0, VRING_DESC_F_NEXT, VRING_DESC_F_NEXT + VRING_DESC_F_WRITE, VRING_DESC_F_INDIRECT}
DescNexts == {0, MaxSize - 1, U16 - 1}
DescLens == {0, 2 * DescriptorSize, 2 * DescriptorSize + 8}
ChainHeads == 0..MaxSize \cup {U16 - 1}

ChainInit ==
    /\ \E size \in 1..MaxSize : q = Configured(size)
    /\ mem = ZeroMem
    /\ chain = None
    /\ last = NoOp
    /\ batch = {}
    /\ ev_cont = FALSE
    /\ NoIter /\ DevAtRest /\ DrvAtRest
    /\ sweep = -1
    /\ LoopAtRest /\ wrote = {}

\* the device starts the walk of the chain at head; yielded is a ghost: the
\* descriptors the walk has yielded
ChainNew(head) ==
    /\ chain = None
    /\ chain' = [c |-> DescriptorChain_new(q, head), yielded |-> 0]
    /\ last' = NoOp
    /\ UNCHANGED <<q, mem, usedGhost, iterVars, devVars, drvVars, sweep, loopVars, wrote>>

\* the device asks the walker for the next descriptor
ChainNext ==
    /\ chain # None
    /\ LET r == DescriptorChain_next(chain.c, mem)
       IN  /\ chain' = [c |-> r.c,
                        yielded |-> IF r.desc = None THEN chain.yielded ELSE chain.yielded + 1]
           /\ last' = Ret("chain_next", "Ok", r.desc # None, 0, <<0, 0>>)
    /\ UNCHANGED <<q, mem, usedGhost, iterVars, devVars, drvVars, sweep, loopVars, wrote>>

\* the device drops the walker
ChainDrop ==
    /\ chain # None
    /\ chain' = None
    /\ last' = NoOp
    /\ UNCHANGED <<q, mem, usedGhost, iterVars, devVars, drvVars, sweep, loopVars, wrote>>

\* the driver writes descriptor i (the low 16 bits of addr and of len, the
\* flags and the next field), also while the device is walking
DrvStoreDesc(i, a, l, f, n) ==
    /\ LET at == DescBase + DescriptorSize * i
       IN  mem' = store(store(store(store(mem, a, ToAddr(at)).mem,
                                    l, ToAddr(at + 8)).mem,
                              f, ToAddr(at + FlagsOffset)).mem,
                        n, ToAddr(at + NextOffset)).mem
    /\ last' = NoOp
    /\ UNCHANGED <<q, usedGhost, iterVars, devVars, drvVars, sweep, loopVars, chain, wrote>>

ChainStep ==
    \/ \E head \in ChainHeads : ChainNew(head)
    \/ ChainNext
    \/ ChainDrop
    \/ \E i \in 0..(MaxSize - 1), f \in DescFlags \ {VRING_DESC_F_INDIRECT}, n \in DescNexts :
           DrvStoreDesc(i, 0, 0, f, n)
    \/ \E i \in 0..(MaxSize - 1), l \in DescLens :
           DrvStoreDesc(i, DescBase + DescriptorSize, l, VRING_DESC_F_INDIRECT, 0)

ChainSpec == ChainInit /\ [][ChainStep]_vars

\* the walk of one chain ends: the walker counts down the links left in the
\* table it is in, and it turns to an indirect table once at most
ChainWalkBounded ==
    chain # None =>
        /\ chain.c.ttl <= chain.c.queue_size
        /\ ~chain.c.is_indirect => chain.yielded + chain.c.ttl <= q.size
        /\ chain.c.ttl = 0 => DescriptorChain_next(chain.c, mem).desc = None

\* the walk of one chain yields no more descriptors than the queue has
ChainYieldsAtMostSize == chain # None => chain.yielded <= q.size

\* a walk has yielded more descriptors than the queue has: both entries of an
\* indirect table, from head 0 of a queue of size 1
ChainYieldedPastSize ==
    /\ chain # None /\ q.size = 1 /\ chain.c.head_index = 0
    /\ chain.c.is_indirect /\ chain.yielded = 2

-----------------------------------------------------------------------------
(* The needs_notification sweep of test_needs_notification *)

\* how far past the wraparound the sweep goes
SweepExtra == 12

\* the used_event the driver has stored: 4 as in the test, and 5
SweepUsedEvents == {4, 5}

\* the queue of create_queue after the test's first loop, which with event-index
\* off sets next_used to each i below the size and calls needs_notification;
\* then used_event stored behind the available ring, and event-index on
SweepInit ==
    /\ LET warm[i \in 0..MaxSize] ==
               IF i = 0 THEN Configured(MaxSize)
               ELSE needs_notification(set_next_used(warm[i - 1], i - 1), ZeroMem).q
       IN  q = set_event_idx(warm[MaxSize], TRUE)
    /\ \E v \in SweepUsedEvents : mem = [ZeroMem EXCEPT ![AvailBase + 4 + 2 * MaxSize] = v]
    /\ last = NoOp
    /\ batch = {}
    /\ ev_cont = FALSE
    /\ NoIter /\ DevAtRest /\ DrvAtRest
    /\ sweep = -1
    /\ LoopAtRest /\ chain = None /\ wrote = {}

\* q.next_used = Wrapping(i as u16); q.num_added = Wrapping(1); q.needs_notification(mem)
SweepStep ==
    /\ sweep + 1 < U16 + SweepExtra
    /\ sweep' = sweep + 1
    /\ LET r == needs_notification([q EXCEPT !.next_used = sweep' % U16, !.num_added = 1], mem)
       IN  /\ q' = r.q
           /\ last' = Ret("needs_notification", r.err, r.val, 0, <<0, 0>>)
    /\ UNCHANGED <<mem, usedGhost, iterVars, devVars, drvVars, loopVars, chain, wrote>>

SweepNext == SweepStep

SweepSpec == SweepInit /\ [][SweepNext]_vars

-----------------------------------------------------------------------------
(* add_used, one memory access at a time, beside a polling driver *)

\* add_used calls the device makes in one run
MaxConcAdds == 3

\* the logged call wrote position p, which lies below the index n, and no later
\* logged call has reused its slot
PosBelow(p, n) == Wrap16(n - 1 - p) < 32768
LastInSlot(log, i, size) ==
    \A j \in (i + 1)..Len(log) : log[j].pos % size # log[i].pos % size

UsedConcInit ==
    /\ \E size \in 1..MaxSize, n \in Starts :
          /\ q = set_next_used(Configured(size), n)
          /\ mem = store(ZeroMem, n, ToAddr(UsedBase + IdxOffset)).mem
          /\ drv_seen = n
    /\ last = NoOp
    /\ batch = {}
    /\ ev_cont = FALSE
    /\ NoIter /\ DevAtRest
    /\ drv_pc = "idle" /\ drv_old = 0 /\ kick = FALSE
    /\ sweep = -1
    /\ LoopAtRest /\ chain = None /\ wrote = {}

\* the device enters add_used: the head check and the element write
DevAddUsedElem(head, len) ==
    /\ dev_pc = "idle"
    /\ Len(elem_log) < MaxConcAdds
    /\ LET r == add_used_step(1, q, mem, head, len)
       IN  /\ q' = r.q
           /\ mem' = r.mem
           /\ IF r.err = "Ok"
              THEN /\ dev_pc' = "add_used_2"
                   /\ dev_arg' = [head |-> head, len |-> len]
                   /\ elem_log' = Append(elem_log, [pos |-> q.next_used, id |-> <<head, 0>>, len |-> len])
                   /\ last' = NoOp
              ELSE /\ last' = Ret("add_used", r.err, FALSE, head, len)
                   /\ UNCHANGED <<dev_pc, dev_arg, elem_log>>
    /\ UNCHANGED <<usedGhost, iterVars, en_val, drvVars, sweep, loopVars, chain, wrote>>

\* the device leaves add_used: the counter increments and the idx store
DevAddUsedPublish ==
    /\ dev_pc = "add_used_2"
    /\ LET r == add_used_step(2, q, mem, dev_arg.head, dev_arg.len)
       IN  /\ q' = r.q
           /\ mem' = r.mem
           /\ last' = Ret("add_used", r.err, FALSE, dev_arg.head, dev_arg.len)
    /\ dev_pc' = "idle"
    /\ dev_arg' = NoArg
    /\ UNCHANGED <<usedGhost, iterVars, en_val, elem_log, drvVars, sweep, loopVars, chain, wrote>>

\* the driver polls the used ring's idx
DriverPollUsed ==
    /\ drv_seen # UsedIdxOf(mem)
    /\ drv_seen' = UsedIdxOf(mem)
    /\ last' = NoOp
    /\ UNCHANGED <<q, mem, usedGhost, iterVars, devVars, drv_pc, drv_old, kick, sweep, loopVars, chain, wrote>>

UsedConcNext ==
    \/ \E head \in Heads, len \in Lens : DevAddUsedElem(head, len)
    \/ DevAddUsedPublish
    \/ DriverPollUsed

UsedConcSpec == UsedConcInit /\ [][UsedConcNext]_vars

-----------------------------------------------------------------------------
(* The consumption loop beside a driver that publishes and then decides to notify *)

\* vring_need_event of the virtio standard, as the driver evaluates it
DriverNeedEvent(event, new_idx, old_idx) ==
    Wrap16(Wrap16(new_idx - event) - 1) < Wrap16(new_idx - old_idx)

\* what the driver's decision comes to for the suppression state in memory
DriverWouldNotify ==
    IF q.event_idx_enabled
    THEN DriverNeedEvent(AvailEventOf(mem, q.size), AvailIdxOf(mem), drv_old)
    ELSE UsedFlagsOf(mem) % 2 = 0

\* the device has been notified once and is in its loop; the driver has published up to n
\* the sizes set_size accepts: powers of two, so that the positions 65535 and 0
\* fall in different slots of a ring of more than one entry
RingSizes == {size \in 1..MaxSize : BitAnd(size, size - 1) = 0}

NotifyInit ==
    /\ \E size \in RingSizes, n \in Starts, ev \in BOOLEAN :
          /\ q = set_event_idx(set_next_avail(Configured(size), n), ev)
          /\ mem = [ZeroMem EXCEPT ![AvailBase + 2] = n % 256, ![AvailBase + 3] = n \div 256]
          /\ drv_old = n
    /\ last = NoOp
    /\ batch = {}
    /\ ev_cont = FALSE
    /\ NoIter
    /\ dev_pc = "disable" /\ dev_arg = NoArg /\ en_val = FALSE /\ elem_log = <<>>
    /\ drv_pc = "idle" /\ drv_seen = 0 /\ kick = FALSE
    /\ sweep = -1
    /\ LoopAtRest /\ chain = None /\ wrote = {}

\* a notification reaches the idle device: it enters the loop
DevWake ==
    /\ dev_pc = "idle" /\ kick
    /\ kick' = FALSE
    /\ dev_pc' = "disable"
    /\ last' = NoOp
    /\ UNCHANGED <<q, mem, usedGhost, iterVars, dev_arg, en_val, elem_log, drv_pc, drv_old, drv_seen, sweep, loopVars, chain, wrote>>

DevDisable ==
    /\ dev_pc = "disable"
    /\ LET r == disable_notification(q, mem)
       IN  /\ mem' = r.mem
           /\ last' = Ret("disable_notification", r.err, FALSE, 0, <<0, 0>>)
    /\ dev_pc' = "iter"
    /\ UNCHANGED <<q, usedGhost, iterVars, dev_arg, en_val, elem_log, drvVars, sweep, loopVars, chain, wrote>>

\* q.iter(mem).unwrap(), in the condition of the while loop: a new iterator
\* for every turn
DevIter ==
    /\ dev_pc = "iter"
    /\ LET r == iter(q, mem)
       IN  /\ it' = r.it
           /\ last' = Ret("iter", r.err, FALSE, 0, <<0, 0>>)
           /\ dev_pc' = IF r.err = "Ok" THEN "drain" ELSE "panicked"
    /\ nyield' = 0
    /\ UNCHANGED <<q, mem, usedGhost, dev_arg, en_val, elem_log, drvVars, sweep, loopVars, chain, wrote>>

\* while let Some(chain) = ... .next(): the next chain and its head, or the end
\* of the pass
DevDrain ==
    /\ dev_pc = "drain"
    /\ LET r == AvailIter_next(it, q, mem)
       IN  /\ q' = r.q
           /\ last' = Ret("iter_next", "Ok", r.some, r.head, <<0, 0>>)
           /\ dev_arg' = IF r.some THEN [head |-> r.head, len |-> <<0, 0>>] ELSE NoArg
           /\ IF r.some
              THEN /\ dev_pc' = "add_used"
                   /\ UNCHANGED it
              ELSE /\ it' = None
                   /\ dev_pc' = "enable_1"
           /\ wrote' = IF r.some THEN {w \in wrote : w[1] # q.next_avail} ELSE wrote
    /\ UNCHANGED <<mem, usedGhost, nyield, en_val, elem_log, drvVars, sweep, loopVars, chain>>

\* the body of the while loop: the walk of the chain that sums desc_len, then
\* q.add_used(mem, head_index, desc_len).unwrap(); the turn ends and its
\* iterator with it. Where the sum passes a u32 the turn ends in the panic of
\* the addition (overflow checks on) or goes on with the sum modulo 2^32
DevAddUsed ==
    /\ dev_pc = "add_used"
    /\ LET d == desc_len(q, mem, dev_arg.head)
           r == add_used(q, mem, dev_arg.head, d.len)
       IN  \/ /\ d.overflow
              /\ last' = Ret("desc_len", "Overflow", FALSE, dev_arg.head, d.len)
              /\ dev_pc' = "panicked"
              /\ UNCHANGED <<q, mem>>
           \/ /\ q' = r.q
              /\ mem' = r.mem
              /\ last' = Ret("add_used", r.err, FALSE, dev_arg.head, d.len)
              /\ dev_pc' = IF r.err = "Ok" THEN "iter" ELSE "panicked"
    /\ it' = None
    /\ dev_arg' = NoArg
    /\ UNCHANGED <<usedGhost, nyield, en_val, elem_log, drvVars, sweep, loopVars, chain, wrote>>

DevEnable1 ==
    /\ dev_pc = "enable_1"
    /\ LET r == enable_notification_step(1, q, mem)
       IN  /\ mem' = r.mem
           /\ en_val' = (r.read /\ r.val)
    /\ dev_pc' = "enable_2"
    /\ last' = NoOp
    /\ UNCHANGED <<q, usedGhost, iterVars, dev_arg, elem_log, drvVars, sweep, loopVars, chain, wrote>>

\* the loop goes round again when enable_notification returned true
DevEnable2 ==
    /\ dev_pc = "enable_2"
    /\ LET r == enable_notification_step(2, q, mem)
           val == IF r.read THEN r.val ELSE en_val
       IN  /\ mem' = r.mem
           /\ last' = Ret("enable_notification", r.err, val, 0, <<0, 0>>)
           /\ dev_pc' = IF val THEN "disable" ELSE "idle"
    /\ en_val' = FALSE
    /\ UNCHANGED <<q, usedGhost, iterVars, dev_arg, elem_log, drvVars, sweep, loopVars, chain, wrote>>

\* the driver writes the head of a new chain into the next slot of the available ring
DrvWriteEntry(head) ==
    /\ drv_pc \in {"idle", "check"}
    /\ InWindow(AvailIdxOf(mem))
    /\ Wrap16(AvailIdxOf(mem) - q.next_avail) < q.size
    /\ LET slot == AvailIdxOf(mem) % q.size
       IN  mem' = [mem EXCEPT ![AvailBase + 4 + 2 * slot] = head % 256,
                              ![AvailBase + 4 + 2 * slot + 1] = head \div 256]
    /\ wrote' = wrote \cup {<<AvailIdxOf(mem), head>>}
    /\ drv_pc' = "publish"
    /\ last' = NoOp
    /\ UNCHANGED <<q, usedGhost, iterVars, devVars, drv_old, drv_seen, kick, sweep, loopVars, chain>>

\* the driver publishes the entry: avail idx goes up by one
DrvPublishIdx ==
    /\ drv_pc = "publish"
    /\ LET v == Wrap16(AvailIdxOf(mem) + 1)
       IN  mem' = [mem EXCEPT ![AvailBase + 2] = v % 256, ![AvailBase + 3] = v \div 256]
    /\ drv_pc' = "check"
    /\ last' = NoOp
    /\ UNCHANGED <<q, usedGhost, iterVars, devVars, drv_old, drv_seen, kick, sweep, loopVars, chain, wrote>>

\* the driver reads the suppression state and notifies the device or not
DrvCheck ==
    /\ drv_pc = "check"
    /\ kick' = (kick \/ DriverWouldNotify)
    /\ drv_old' = AvailIdxOf(mem)
    /\ drv_pc' = "idle"
    /\ last' = NoOp
    /\ UNCHANGED <<q, mem, usedGhost, iterVars, devVars, drv_seen, sweep, loopVars, chain, wrote>>

NotifyNext ==
    \/ DevWake
    \/ DevDisable
    \/ DevIter
    \/ DevDrain
    \/ DevAddUsed
    \/ DevEnable1
    \/ DevEnable2
    \/ \E head \in 0..(MaxSize - 1) : DrvWriteEntry(head)
    \/ DrvPublishIdx
    \/ DrvCheck

NotifySpec == NotifyInit /\ [][NotifyNext]_vars

-----------------------------------------------------------------------------
(* Configuration: the setters, reset and is_valid, from new(max_size) on *)

\* the max_size a device may pass to new: none, the model's, and one more
MaxSizes == {0, MaxSize, MaxSize + 1}
\* the sizes the driver may write
Sizes == 0..(2 * MaxSize + 1) \cup {U16 \div 2, U16 - 1}
\* the address halves the driver may write: the rings' places in the mapped
\* region, a ring that ends with the region, misaligned values, and all ones
DescLows == {<<DescBase, 0>>, <<DescAlign - 1, 0>>, <<U16 - DescAlign, U16 - 1>>}
AvailLows == {<<AvailBase, 0>>,
              <<MemEnd - VIRTQ_AVAIL_RING_META_SIZE - VIRTQ_AVAIL_ELEMENT_SIZE - (MemEnd % AvailAlign), 0>>,
              <<AvailBase + 1, 0>>, <<U16 - AvailAlign, U16 - 1>>}
UsedLows == {<<UsedBase, 0>>, <<UsedBase + AvailAlign, 0>>, <<U16 - UsedAlign, U16 - 1>>}
Highs == {None, <<0, 0>>, <<U16 - 1, U16 - 1>>}

ConfigInit ==
    /\ \E max_size \in MaxSizes : q = new(max_size)
    /\ mem = ZeroMem
    /\ last = NoOp
    /\ batch = {}
    /\ ev_cont = FALSE
    /\ NoIter /\ DevAtRest /\ DrvAtRest
    /\ sweep = -1
    /\ LoopAtRest /\ chain = None /\ wrote = {}

SetSize(size) ==
    /\ q' = set_size(q, size)
    /\ last' = NoOp
    /\ UNCHANGED <<mem, usedGhost, iterVars, devVars, drvVars, sweep, loopVars, chain, wrote>>

SetReady(ready) ==
    /\ q' = set_ready(q, ready)
    /\ last' = NoOp
    /\ UNCHANGED <<mem, usedGhost, iterVars, devVars, drvVars, sweep, loopVars, chain, wrote>>

SetDescTableAddress(low, high) ==
    /\ q' = set_desc_table_address(q, low, high)
    /\ last' = NoOp
    /\ UNCHANGED <<mem, usedGhost, iterVars, devVars, drvVars, sweep, loopVars, chain, wrote>>

SetAvailRingAddress(low, high) ==
    /\ q' = set_avail_ring_address(q, low, high)
    /\ last' = NoOp
    /\ UNCHANGED <<mem, usedGhost, iterVars, devVars, drvVars, sweep, loopVars, chain, wrote>>

SetUsedRingAddress(low, high) ==
    /\ q' = set_used_ring_address(q, low, high)
    /\ last' = NoOp
    /\ UNCHANGED <<mem, usedGhost, iterVars, devVars, drvVars, sweep, loopVars, chain, wrote>>

Reset ==
    /\ q' = reset(q)
    /\ last' = Ret("reset", "Ok", FALSE, 0, <<0, 0>>)
    /\ UNCHANGED <<mem, usedGhost, iterVars, devVars, drvVars, sweep, loopVars, chain, wrote>>

IsValid ==
    /\ last' = Ret("is_valid", "Ok", is_valid(q, mem), 0, <<0, 0>>)
    /\ UNCHANGED <<q, mem, usedGhost, iterVars, devVars, drvVars, sweep, loopVars, chain, wrote>>

ConfigNext ==
    \/ \E size \in Sizes : SetSize(size)
    \/ \E ready \in BOOLEAN : SetReady(ready)
    \/ \E low \in DescLows \cup {None}, high \in Highs : SetDescTableAddress(low, high)
    \/ \E low \in AvailLows \cup {None}, high \in Highs : SetAvailRingAddress(low, high)
    \/ \E low \in UsedLows \cup {None}, high \in Highs : SetUsedRingAddress(low, high)
    \/ \E enabled \in BOOLEAN : SetEventIdx(enabled)
    \/ Reset
    \/ IsValid

ConfigSpec == ConfigInit /\ [][ConfigNext]_vars

-----------------------------------------------------------------------------
(* The consumption loop of test_consume_chains_with_notif, call by call, beside *)
(* a driver that may store anything in the fields it owns                       *)

\* what the driver may store in a slot of the available ring in place of the
\* head it holds: a value that is no index of the queue
RingValues == {U16 - 1}
\* the used_event thresholds the driver may store
LoopUsedEvents == {0, U16 - 1}

\* the device enters the loop over the descriptor table and the ring of the
\* test, the driver having published k entries: on the queue create_queue
\* hands over (both cursors 0), or on one restored at available index n and at
\* a used index on the other side of the wraparound; the descriptors are those
\* of the test (no VRING_DESC_F_WRITE, len 0x1000), or carry the flag and a len
\* of 2^31, which makes them count in desc_len and two of them pass a u32
LoopInit ==
    /\ \E size \in 1..MaxSize, n \in Starts, k \in 1..MaxPublished, ev \in BOOLEAN,
          d \in {<<0, <<4096, 0>>>>, <<VRING_DESC_F_WRITE, <<0, 32768>>>>} :
       \E u \in {n, Wrap16(U16 - WrapMargin - n)} :
          /\ q = set_event_idx(set_next_used(set_next_avail(Configured(size), n), u), ev)
          /\ mem = store(store(TestMem(d[1], d[2]), u, ToAddr(UsedBase + IdxOffset)).mem,
                         Wrap16(n + k), ToAddr(AvailBase + IdxOffset)).mem
    /\ q0 = q
    /\ passes = 0
    /\ adv = <<>>
    /\ chain = None /\ wrote = {}
    /\ last = NoOp
    /\ batch = {}
    /\ ev_cont = FALSE
    /\ NoIter
    /\ dev_pc = "disable" /\ dev_arg = NoArg /\ en_val = FALSE /\ elem_log = <<>>
    /\ DrvAtRest
    /\ sweep = -1

\* q.disable_notification(mem).unwrap(), at the top of a pass
LoopDisable ==
    /\ dev_pc = "disable"
    /\ passes' = passes + 1
    /\ LET r == disable_notification(q, mem)
       IN  /\ mem' = r.mem
           /\ last' = Ret("disable_notification", r.err, FALSE, 0, <<0, 0>>)
           /\ dev_pc' = IF r.err = "Ok" THEN "iter" ELSE "panicked"
    /\ UNCHANGED <<q, usedGhost, iterVars, dev_arg, en_val, elem_log, drvVars, sweep, q0, adv, chain, wrote>>

\* q.iter(mem).unwrap()
LoopIter ==
    /\ dev_pc = "iter"
    /\ LET r == iter(q, mem)
       IN  /\ it' = r.it
           /\ last' = Ret("iter", r.err, FALSE, 0, <<0, 0>>)
           /\ dev_pc' = IF r.err = "Ok" THEN "next" ELSE "panicked"
    /\ UNCHANGED <<q, mem, usedGhost, nyield, dev_arg, en_val, elem_log, drvVars, sweep, loopVars, chain, wrote>>

\* while let Some(chain) = ... .next(), and chain.head_index(): the iterator
\* lives for this one call, the head for the turn
LoopIterNext ==
    /\ dev_pc = "next"
    /\ InWindow(q.next_avail) \/ q.next_avail = it.last_index
    /\ LET r == AvailIter_next(it, q, mem)
       IN  /\ q' = r.q
           /\ last' = Ret("iter_next", "Ok", r.some, r.head, <<0, 0>>)
           /\ dev_pc' = IF r.some THEN "add_used" ELSE "enable"
           /\ dev_arg' = IF r.some THEN [head |-> r.head, len |-> <<0, 0>>] ELSE NoArg
    /\ it' = None
    /\ UNCHANGED <<mem, usedGhost, nyield, en_val, elem_log, drvVars, sweep, loopVars, chain, wrote>>

\* the walk of the chain that sums desc_len, then
\* q.add_used(mem, head_index, desc_len).unwrap(); where the sum passes a u32
\* the turn ends in the panic of the addition (overflow checks on) or goes on
\* with the sum modulo 2^32 (overflow checks off)
LoopAddUsed ==
    /\ dev_pc = "add_used"
    /\ InWindow(q.next_used)
    /\ LET d == desc_len(q, mem, dev_arg.head)
           r == add_used(q, mem, dev_arg.head, d.len)
       IN  \/ /\ d.overflow
              /\ last' = Ret("desc_len", "Overflow", FALSE, dev_arg.head, d.len)
              /\ dev_pc' = "panicked"
              /\ UNCHANGED <<q, mem>>
           \/ /\ q' = r.q
              /\ mem' = r.mem
              /\ last' = Ret("add_used", r.err, FALSE, dev_arg.head, d.len)
              /\ dev_pc' = IF r.err = "Ok" THEN "iter" ELSE "panicked"
    /\ dev_arg' = NoArg
    /\ UNCHANGED <<usedGhost, iterVars, en_val, elem_log, drvVars, sweep, loopVars, chain, wrote>>

\* if !q.enable_notification(mem).unwrap() { break; }
LoopEnable ==
    /\ dev_pc = "enable"
    /\ LET r == enable_notification(q, mem)
       IN  /\ mem' = r.mem
           /\ last' = Ret("enable_notification", r.err, r.val, 0, <<0, 0>>)
           /\ dev_pc' = IF r.err # "Ok" THEN "panicked"
                        ELSE IF r.val THEN "disable" ELSE "done"
    /\ UNCHANGED <<q, usedGhost, iterVars, dev_arg, en_val, elem_log, drvVars, sweep, loopVars, chain, wrote>>

\* out of the loop, the device asks whether to signal the driver
LoopNeedsNotification ==
    /\ dev_pc = "done"
    /\ LET r == needs_notification(q, mem)
       IN  /\ q' = r.q
           /\ last' = Ret("needs_notification", r.err, r.val, 0, <<0, 0>>)
    /\ dev_pc' = "idle"
    /\ UNCHANGED <<mem, usedGhost, iterVars, dev_arg, en_val, elem_log, drvVars, sweep, loopVars, chain, wrote>>

\* the driver stores an avail idx while the device is in the loop
LoopDrvStoreIdx(v) ==
    /\ dev_pc \notin {"done", "idle", "panicked"}
    /\ Len(adv) < MaxDrvStores
    /\ v # AvailIdxOf(mem)
    /\ mem' = [mem EXCEPT ![AvailBase + 2] = v % 256, ![AvailBase + 3] = v \div 256]
    /\ adv' = Append(adv, [pc |-> dev_pc, pass |-> passes, from |-> AvailIdxOf(mem), to |-> v])
    /\ last' = NoOp
    /\ UNCHANGED <<q, usedGhost, iterVars, devVars, drvVars, sweep, passes, q0, chain, wrote>>

\* the driver stores a value in a slot of the available ring
LoopDrvStoreRing(slot, v) ==
    /\ dev_pc \notin {"done", "idle", "panicked"}
    /\ mem' = [mem EXCEPT ![AvailBase + 4 + 2 * slot] = v % 256,
                          ![AvailBase + 4 + 2 * slot + 1] = v \div 256]
    /\ mem' # mem
    /\ last' = NoOp
    /\ UNCHANGED <<q, usedGhost, iterVars, devVars, drvVars, sweep, loopVars, chain, wrote>>

\* the driver stores a used_event threshold
LoopDrvStoreUsedEvent(v) ==
    /\ dev_pc = "done"
    /\ mem' = [mem EXCEPT ![AvailBase + 4 + 2 * q.size] = v % 256,
                          ![AvailBase + 4 + 2 * q.size + 1] = v \div 256]
    /\ mem' # mem
    /\ last' = NoOp
    /\ UNCHANGED <<q, usedGhost, iterVars, devVars, drvVars, sweep, loopVars, chain, wrote>>

\* the avail idx values a driver may store: one entry more, an index
\* behind next_avail, and one far ahead of the populated slots
LoopIdxValues ==
    {Wrap16(AvailIdxOf(mem) + 1), Wrap16(q.next_avail - 1), Wrap16(q.next_avail + U16 \div 2)}

LoopNext ==
    \/ LoopDisable
    \/ LoopIter
    \/ LoopIterNext
    \/ LoopAddUsed
    \/ LoopEnable
    \/ LoopNeedsNotification
    \/ \E v \in LoopIdxValues : LoopDrvStoreIdx(v)
    \/ \E slot \in 0..(q.size - 1), v \in RingValues : LoopDrvStoreRing(slot, v)
    \/ \E v \in LoopUsedEvents : LoopDrvStoreUsedEvent(v)

LoopSpec == LoopInit /\ [][LoopNext]_vars

-----------------------------------------------------------------------------
(* A queue in use while the transport clears and sets ready, and resets it *)

\* the queue as create_queue hands it over: the ring addresses set, ready, over
\* memory no one has written; the size at max_size as in the test, or below
LifeInit ==
    /\ \E size \in 1..MaxSize : q = Configured(size)
    /\ mem = ZeroMem
    /\ last = NoOp
    /\ batch = {}
    /\ ev_cont = FALSE
    /\ NoIter /\ DevAtRest /\ DrvAtRest
    /\ sweep = -1
    /\ LoopAtRest /\ chain = None /\ wrote = {}

\* Queue::avail_idx(mem, order)
AvailIdx ==
    /\ LET r == avail_idx(q, mem)
       IN  last' = Ret("avail_idx", r.err, FALSE, r.val, <<0, 0>>)
    /\ UNCHANGED <<q, mem, usedGhost, iterVars, devVars, drvVars, sweep, loopVars, chain, wrote>>

\* Queue::used_idx(mem, order)
UsedIdx ==
    /\ LET r == used_idx(q, mem)
       IN  last' = Ret("used_idx", r.err, FALSE, r.val, <<0, 0>>)
    /\ UNCHANGED <<q, mem, usedGhost, iterVars, devVars, drvVars, sweep, loopVars, chain, wrote>>

\* Queue::set_next_avail, as a device restoring a saved queue calls it
SetNextAvail(n) ==
    /\ it = None
    /\ q' = set_next_avail(q, n)
    /\ last' = NoOp
    /\ UNCHANGED <<mem, usedGhost, iterVars, devVars, drvVars, sweep, loopVars, chain, wrote>>

\* Queue::set_next_used, likewise
SetNextUsed(n) ==
    /\ it = None
    /\ q' = set_next_used(q, n)
    /\ last' = NoOp
    /\ UNCHANGED <<mem, usedGhost, iterVars, devVars, drvVars, sweep, loopVars, chain, wrote>>

\* Queue::reset; the ghost q0 keeps the queue it was applied to
LifeReset ==
    /\ it = None
    /\ q' = reset(q)
    /\ q0' = q
    /\ last' = Ret("reset", "Ok", FALSE, 0, <<0, 0>>)
    /\ batch' = {}
    /\ ev_cont' = FALSE
    /\ UNCHANGED <<mem, iterVars, devVars, drvVars, sweep, passes, adv, chain, wrote>>

LifeNext ==
    \/ \E ready \in BOOLEAN : SetReady(ready)
    \/ \E enabled \in BOOLEAN : SetEventIdx(enabled)
    \/ \E n \in {U16 - 1} : SetNextAvail(n)
    \/ IsValid
    \/ LifeReset
    \/ \E head \in {0, MaxSize}, len \in {<<4096, 0>>} : AddUsed(head, len)
    \/ NeedsNotification
    \/ EnableNotification
    \/ DisableNotification
    \/ Iter
    \/ IterDrop
    \/ AvailIdx
    \/ UsedIdx

LifeSpec == LifeInit /\ [][LifeNext]_vars

-----------------------------------------------------------------------------
(* add_used on queues whose used ring is anywhere: in the memory, across its *)
(* ends, outside it, at the top of the address space                         *)

\* the halves the driver writes into the used ring address: the ring in its
\* place, the ring one alignment step below the memory (its idx unmapped, its
\* first element mapped), and the last aligned address
ErrUsedLows == {<<UsedBase, 0>>, <<MemBase - UsedAlign, 0>>, <<U16 - UsedAlign, U16 - 1>>}
\* the heads add_used is given: a descriptor of every queue, and one of none
ErrHeads == {0, MaxSize + 1}
ErrLens == {<<4096, 0>>}

ErrInit ==
    /\ \E max_size \in MaxSizes : q = new(max_size)
    /\ mem = ZeroMem
    /\ last = NoOp
    /\ batch = {}
    /\ ev_cont = FALSE
    /\ NoIter /\ DevAtRest /\ DrvAtRest
    /\ sweep = -1
    /\ LoopAtRest /\ chain = None /\ wrote = {}

ErrNext ==
    \/ \E size \in 1..MaxSize : SetSize(size)
    \/ \E low \in ErrUsedLows \cup {None}, high \in Highs : SetUsedRingAddress(low, high)
    \/ \E n \in {U16 - 1} : SetNextUsed(n)
    \/ \E head \in ErrHeads, len \in ErrLens : AddUsed(head, len)

ErrSpec == ErrInit /\ [][ErrNext]_vars
-----------------------------------------------------------------------------
(* The device reads a Descriptor from guest memory, sets its fields and asks *)
(* for its next                                                              *)

\* #[repr(C)] enum Descriptor: a 4-byte tag (0 split, 1 packed), 4 bytes of
\* padding, and the 16 bytes of the variant
DescriptorEnumSize == 24
PayloadOffset == 8

\* the tag of the Descriptor stored at index i from DescBase
DescTagOf(m, i) == U32FromBytes(ReadBytes(m, DescBase + DescriptorEnumSize * i, 4))

\* read_obj::<Descriptor> at index i from DescBase, through the ByteValued impl:
\* the variant the tag names, its fields from the bytes behind the padding. A
\* tag that names no variant gives a value of neither variant; addr and len lie
\* where both variants keep them, w12 and w14 are the two u16 that follow. Every
\* call on such a value is undefined behaviour: it may return any u16 or
\* either bool, store anywhere, panic, or end in the death of the process. The
\* actions below record such a call as "Undefined", which stands for all of
\* these, and follow the device no further
DescAt(m, i) ==
    LET tag == DescTagOf(m, i)
        b == ReadBytes(m, DescBase + DescriptorEnumSize * i + PayloadOffset, DescriptorSize)
    IN  IF tag = <<0, 0>> THEN SplitDescriptor(b)
        ELSE IF tag = <<1, 0>> THEN PackedDescriptor(b)
        ELSE [kind |-> "Invalid", tag |-> tag,
              addr |-> SplitDescriptor(b).addr, len |-> SplitDescriptor(b).len,
              w12 |-> U16FromBytes(SubSeq(b, 13, 14)), w14 |-> U16FromBytes(SubSeq(b, 15, 16))]

\* Descriptor::set_flags, on a value of either variant
set_flags(desc, f) == [desc EXCEPT !.flags = f]

\* Descriptor::set_addr
set_addr(desc, a) == [desc EXCEPT !.addr = a]

\* Descriptor::set_len
set_len(desc, l) == [desc EXCEPT !.len = l]

\* packed::Descriptor::set_id, on the value inside the packed variant
set_id(desc, id) == [desc EXCEPT !.id = id]

\* setter calls the device makes on one value it has read
MaxSets == 1

DescInit ==
    /\ q = Configured(MaxSize)
    /\ mem = ZeroMem
    /\ last = NoOp
    /\ batch = {}
    /\ ev_cont = FALSE
    /\ NoIter /\ DevAtRest /\ DrvAtRest
    /\ sweep = -1
    /\ LoopAtRest /\ chain = None /\ wrote = {}

\* the device reads the Descriptor at index i into a value of its own
DescRead(i) ==
    /\ dev_pc = "idle"
    /\ chain' = [desc |-> DescAt(mem, i), index |-> i]
    /\ last' = Ret("read_obj", "Ok", TRUE, i, <<0, 0>>)
    /\ passes' = 0
    /\ UNCHANGED <<q, mem, usedGhost, iterVars, devVars, drvVars, sweep, q0, adv, wrote>>

\* desc.next() on the value the device holds: the call returns a u16, or it
\* ends in the panic of unimplemented!()
DescNext ==
    /\ dev_pc = "idle" /\ chain # None
    /\ IF chain.desc.kind = "Invalid"
       THEN /\ last' = Ret("next", "Undefined", FALSE, 0, <<0, 0>>)
            /\ dev_pc' = "undefined"
       ELSE /\ LET r == next(chain.desc)
               IN  last' = IF r = Unimplemented
                           THEN Ret("next", "Unimplemented", FALSE, 0, <<0, 0>>)
                           ELSE Ret("next", "Ok", TRUE, r, <<0, 0>>)
            /\ UNCHANGED dev_pc
    /\ UNCHANGED <<q, mem, usedGhost, iterVars, dev_arg, en_val, elem_log, drvVars, sweep, loopVars, chain, wrote>>

\* desc.has_next() on the value the device holds
DescHasNext ==
    /\ dev_pc = "idle" /\ chain # None
    /\ IF chain.desc.kind = "Invalid"
       THEN /\ last' = Ret("has_next", "Undefined", FALSE, 0, <<0, 0>>)
            /\ dev_pc' = "undefined"
       ELSE /\ last' = Ret("has_next", "Ok", has_next(chain.desc), 0, <<0, 0>>)
            /\ UNCHANGED dev_pc
    /\ UNCHANGED <<q, mem, usedGhost, iterVars, dev_arg, en_val, elem_log, drvVars, sweep, loopVars, chain, wrote>>

\* desc.set_flags(f) on the value the device holds
DescSetFlags(f) ==
    /\ dev_pc = "idle" /\ chain # None
    /\ passes < MaxSets
    /\ passes' = passes + 1
    /\ IF chain.desc.kind = "Invalid"
       THEN /\ last' = Ret("set_flags", "Undefined", FALSE, f, <<0, 0>>)
            /\ dev_pc' = "undefined"
            /\ UNCHANGED chain
       ELSE /\ chain' = [chain EXCEPT !.desc = set_flags(@, f)]
            /\ last' = Ret("set_flags", "Ok", FALSE, f, <<0, 0>>)
            /\ UNCHANGED dev_pc
    /\ UNCHANGED <<q, mem, usedGhost, iterVars, dev_arg, en_val, elem_log, drvVars, sweep, q0, adv, wrote>>

\* desc.set_addr(a) on the value the device holds
DescSetAddr(a) ==
    /\ dev_pc = "idle" /\ chain # None
    /\ passes < MaxSets
    /\ passes' = passes + 1
    /\ IF chain.desc.kind = "Invalid"
       THEN /\ last' = Ret("set_addr", "Undefined", FALSE, 0, <<0, 0>>)
            /\ dev_pc' = "undefined"
            /\ UNCHANGED chain
       ELSE /\ chain' = [chain EXCEPT !.desc = set_addr(@, a)]
            /\ last' = Ret("set_addr", "Ok", FALSE, 0, <<0, 0>>)
            /\ UNCHANGED dev_pc
    /\ UNCHANGED <<q, mem, usedGhost, iterVars, dev_arg, en_val, elem_log, drvVars, sweep, q0, adv, wrote>>

\* desc.set_len(l) on the value the device holds
DescSetLen(l) ==
    /\ dev_pc = "idle" /\ chain # None
    /\ passes < MaxSets
    /\ passes' = passes + 1
    /\ IF chain.desc.kind = "Invalid"
       THEN /\ last' = Ret("set_len", "Undefined", FALSE, 0, l)
            /\ dev_pc' = "undefined"
            /\ UNCHANGED chain
       ELSE /\ chain' = [chain EXCEPT !.desc = set_len(@, l)]
            /\ last' = Ret("set_len", "Ok", FALSE, 0, l)
            /\ UNCHANGED dev_pc
    /\ UNCHANGED <<q, mem, usedGhost, iterVars, dev_arg, en_val, elem_log, drvVars, sweep, q0, adv, wrote>>

\* set_id(id) on the packed descriptor inside the value the device holds; the
\* call is reached through a match on the tag, and on a split value it is not
\* reached
DescSetId(id) ==
    /\ dev_pc = "idle" /\ chain # None
    /\ chain.desc.kind # "SplitDescriptor"
    /\ passes < MaxSets
    /\ passes' = passes + 1
    /\ IF chain.desc.kind = "Invalid"
       THEN /\ last' = Ret("set_id", "Undefined", FALSE, id, <<0, 0>>)
            /\ dev_pc' = "undefined"
            /\ UNCHANGED chain
       ELSE /\ chain' = [chain EXCEPT !.desc = set_id(@, id)]
            /\ last' = Ret("set_id", "Ok", FALSE, id, <<0, 0>>)
            /\ UNCHANGED dev_pc
    /\ UNCHANGED <<q, mem, usedGhost, iterVars, dev_arg, en_val, elem_log, drvVars, sweep, q0, adv, wrote>>

\* the driver writes the tag of the Descriptor at index i (0, 1, or 2, which
\* names no variant) and the two u16 at bytes 12 and 14 of its variant: flags
\* and next of a split descriptor, id and flags of a packed one; the run ends
\* with the first call of undefined behaviour
DrvStoreDescriptor(i, tag, f, n) ==
    /\ dev_pc = "idle"
    /\ LET a == DescBase + DescriptorEnumSize * i
       IN  mem' = store(store(store(store(mem, tag, ToAddr(a)).mem, 0, ToAddr(a + 2)).mem,
                              f, ToAddr(a + PayloadOffset + FlagsOffset)).mem,
                        n, ToAddr(a + PayloadOffset + NextOffset)).mem
    /\ last' = NoOp
    /\ UNCHANGED <<q, usedGhost, iterVars, devVars, drvVars, sweep, loopVars, chain, wrote>>

DescStep ==
    \/ \E i \in 0..(MaxSize - 1) : DescRead(i)
    \/ DescNext
    \/ DescHasNext
    \/ \E f \in {0, VRING_DESC_F_NEXT} : DescSetFlags(f)
    \/ DescSetAddr(<<1, 0, 0, 0>>)
    \/ DescSetLen(<<1, 0>>)
    \/ DescSetId(1)
    \/ \E i \in 0..(MaxSize - 1), tag \in 0..2, f \in {0, VRING_DESC_F_NEXT}, n \in {1, U16 - 1} :
          DrvStoreDescriptor(i, tag, f, n)

DescSpec == DescInit /\ [][DescStep]_vars

-----------------------------------------------------------------------------
(* The device takes a chain from the iterator and puts it back *)

\* a queue restored at available index n, the driver having published up to n
RewindInit ==
    /\ \E size \in RingSizes, n \in Starts :
          /\ q = set_next_avail(Configured(size), n)
          /\ mem = [ZeroMem EXCEPT ![AvailBase + 2] = n % 256, ![AvailBase + 3] = n \div 256]
    /\ last = NoOp
    /\ batch = {}
    /\ ev_cont = FALSE
    /\ NoIter /\ DevAtRest /\ DrvAtRest
    /\ sweep = -1
    /\ LoopAtRest /\ chain = None /\ wrote = {}

\* iter.next(): a yield is recorded with the queue as it was before it (q0) and
\* the head it gave (dev_arg); passes is 1 when the call came after a rewind
RewindIterNext ==
    /\ it # None
    /\ InWindow(q.next_avail) \/ q.next_avail = it.last_index
    /\ LET r == AvailIter_next(it, q, mem)
       IN  /\ q' = r.q
           /\ last' = Ret("iter_next", "Ok", r.some, r.head, <<0, 0>>)
           /\ nyield' = IF r.some THEN nyield + 1 ELSE nyield
           /\ q0' = IF r.some THEN q ELSE q0
           /\ dev_arg' = IF r.some THEN [head |-> r.head, len |-> <<0, 0>>] ELSE dev_arg
           /\ dev_pc' = IF r.some THEN "yielded"
                        ELSE IF dev_pc = "rewound" THEN "idle" ELSE dev_pc
           /\ passes' = IF dev_pc = "rewound" THEN 1 ELSE 0
    /\ UNCHANGED <<mem, it, usedGhost, en_val, elem_log, drvVars, sweep, adv, chain, wrote>>

\* q.go_to_previous_position(), called once the iterator's borrow of the queue
\* has ended; right after a yield it puts the device at "rewound"
GoToPreviousPosition ==
    /\ it = None
    /\ InWindow(Wrap16(q.next_avail - 1))
    /\ q' = go_to_previous_position(q)
    /\ last' = Ret("go_to_previous_position", "Ok", FALSE, 0, <<0, 0>>)
    /\ dev_pc' = IF dev_pc = "yielded" THEN "rewound" ELSE "idle"
    /\ UNCHANGED <<mem, usedGhost, iterVars, dev_arg, en_val, elem_log, drvVars, sweep, loopVars, chain, wrote>>

\* the driver writes the head of a new chain into the next slot of the available
\* ring; no entry comes back through the used ring here, so it writes at most
\* size of them
RewindDrvWriteEntry(head) ==
    /\ drv_pc \in {"idle", "check"}
    /\ InWindow(AvailIdxOf(mem))
    /\ Cardinality(wrote) < q.size
    /\ LET slot == AvailIdxOf(mem) % q.size
       IN  mem' = [mem EXCEPT ![AvailBase + 4 + 2 * slot] = head % 256,
                              ![AvailBase + 4 + 2 * slot + 1] = head \div 256]
    /\ wrote' = wrote \cup {<<AvailIdxOf(mem), head>>}
    /\ drv_pc' = "publish"
    /\ last' = NoOp
    /\ UNCHANGED <<q, usedGhost, iterVars, devVars, drv_old, drv_seen, kick, sweep, loopVars, chain>>

RewindNext ==
    \/ Iter
    \/ RewindIterNext
    \/ IterDrop
    \/ GoToPreviousPosition
    \/ \E head \in 0..(MaxSize - 1) : RewindDrvWriteEntry(head)
    \/ DrvPublishIdx
    \/ DrvCheck

RewindSpec == RewindInit /\ [][RewindNext]_vars

-----------------------------------------------------------------------------
(* The device pops one chain at a time from an available ring the driver may
   have put anywhere *)

\* the low halves the driver may write for the available ring: the ring's place
\* in the mapped region, a ring whose idx is the last thing in the region, and
\* the top of the address space
PopAvailLows == {<<AvailBase, 0>>,
                 <<MemEnd - VIRTQ_AVAIL_RING_HEADER_SIZE - (MemEnd % AvailAlign), 0>>,
                 <<U16 - AvailAlign, U16 - 1>>}

\* a new queue, its rings at the default addresses, over zeroed memory
PopInit ==
    /\ \E max_size \in MaxSizes : q = new(max_size)
    /\ mem = ZeroMem
    /\ last = NoOp
    /\ batch = {}
    /\ ev_cont = FALSE
    /\ NoIter /\ DevAtRest /\ DrvAtRest
    /\ sweep = -1
    /\ LoopAtRest /\ chain = None /\ wrote = {}

\* q.pop_descriptor_chain(mem)
PopDescriptorChain ==
    /\ it = None
    /\ InWindow(q.next_avail)
    /\ LET r == pop_descriptor_chain(q, mem)
       IN  /\ q' = r.q
           /\ last' = Ret("pop_descriptor_chain", "Ok", r.some, r.head, <<0, 0>>)
    /\ UNCHANGED <<mem, usedGhost, iterVars, devVars, drvVars, sweep, loopVars, chain, wrote>>

PopNext ==
    \/ \E size \in 1..MaxSize : SetSize(size)
    \/ \E low \in PopAvailLows \cup {None}, high \in Highs : SetAvailRingAddress(low, high)
    \/ \E n \in Starts : SetNextAvail(n)
    \/ \E v \in Window : DriverSetAvailIdx(v)
    \/ \E slot \in 0..(MaxSize - 1), head \in {0, 1} : DriverSetAvailRing(slot, head)
    \/ PopDescriptorChain

PopSpec == PopInit /\ [][PopNext]_vars

-----------------------------------------------------------------------------
(* Claims *)

\* C1: a successful add_used(mem, head, len) has head < size, writes { id: head, len }
\* into used-ring slot (next_used mod size) for the next_used before the call,
\* increments next_used and num_added by one modulo 2^16, and increments the
\* used-ring idx in guest memory by exactly one.
C1_AddUsedWritesAndPublishes ==
    [][(last'.op = "add_used" /\ last'.err = "Ok") =>
          /\ last'.head < q.size
          /\ UsedElemOf(mem', q.next_used % q.size) = [id |-> <<last'.head, 0>>, len |-> last'.len]
          /\ q'.next_used = (q.next_used + 1) % 65536
          /\ q'.num_added = (q.num_added + 1) % 65536
          /\ UsedIdxOf(mem') = (UsedIdxOf(mem) + 1) % 65536
          /\ q' = [q EXCEPT !.next_used = q'.next_used, !.num_added = q'.num_added]]_vars

\* C1 witness: an add_used that succeeded with head 1 and a four-byte len, in
\* slot 1 of a queue of size 2, and took next_used and the idx from 65535 to 0
C1_Witness ==
    /\ last.op = "add_used" /\ last.err = "Ok"
    /\ last.head = 1 /\ last.len = <<22136, 4660>>
    /\ q.size = 2 /\ q.next_used = 0 /\ UsedIdxOf(mem) = 0
    /\ UsedElemOf(mem, 1) = [id |-> <<1, 0>>, len |-> <<22136, 4660>>]

\* C2: add_used with head >= size returns InvalidDescriptorIndex and leaves the
\* queue (next_used, num_added) and guest memory (the element slots, the idx) as they were.
C2_AddUsedRejectsHead ==
    [][(last'.op = "add_used" /\ last'.head >= q.size) =>
          /\ last'.err = "InvalidDescriptorIndex"
          /\ q'.next_used = q.next_used
          /\ q'.num_added = q.num_added
          /\ UsedSlotBytes(mem') = UsedSlotBytes(mem)
          /\ UsedIdxOf(mem') = UsedIdxOf(mem)]_vars

\* C2 witness: a rejected add_used with head = size, after earlier completions
C2_Witness ==
    /\ last.op = "add_used" /\ last.err = "InvalidDescriptorIndex"
    /\ last.head = q.size
    /\ q.num_added = 2 /\ UsedIdxOf(mem) = 1

\* C6: with event-index off, needs_notification returns true whatever next_used,
\* num_added and guest memory hold.
C6_NoEventIdxAlwaysNotifies ==
    [][(last'.op = "needs_notification" /\ ~q.event_idx_enabled) =>
          (last'.err = "Ok" /\ last'.val)]_vars

\* C6 witness: needs_notification returned true with event-index off while the
\* threshold was not crossed by the completions made
C6_Witness ==
    /\ last.op = "needs_notification" /\ last.val
    /\ ~q.event_idx_enabled
    /\ q.num_added = 2 /\ q.next_used = 1
    /\ UsedEventOf(mem, q.size) = 2

\* C7 as stated: with event-index on, needs_notification returns true iff used_event
\* lies in the circular interval (old, next_used], old = next_used - num_added.
C7_AsStated ==
    [][(last'.op = "needs_notification" /\ q.event_idx_enabled /\ last'.err = "Ok") =>
          (last'.val <=> InOpenClosed(UsedEventOf(mem, q.size),
                                      Wrap16(q.next_used - q.num_added), q.next_used))]_vars

\* C7 amended: with event-index on, needs_notification returns true iff used_event
\* lies in the circular interval [old, next_used), old = next_used - num_added.
C7_ThresholdInClosedOpen ==
    [][(last'.op = "needs_notification" /\ q.event_idx_enabled /\ last'.err = "Ok") =>
          (last'.val <=> InClosedOpen(UsedEventOf(mem, q.size),
                                      Wrap16(q.next_used - q.num_added), q.next_used))]_vars

\* C7 witness: needs_notification returned true with used_event = 65535 and
\* next_used = 1: the batch it evaluated ran over the wraparound
C7_Witness ==
    /\ last.op = "needs_notification" /\ last.val /\ last.err = "Ok"
    /\ q.event_idx_enabled /\ ev_cont
    /\ q.next_used = 1 /\ q.num_added = 0
    /\ UsedEventOf(mem, q.size) = 65535

\* C9: with event-index on throughout, needs_notification returns true exactly
\* when one of the add_used calls since the previous needs_notification call
\* took next_used from used_event to used_event + 1.
C9_TrueExactlyOnCrossing ==
    [][(last'.op = "needs_notification" /\ q.event_idx_enabled /\ ev_cont /\ last'.err = "Ok") =>
          (last'.val <=> UsedEventOf(mem, q.size) \in batch)]_vars

\* C9 witness: an evaluation past the wraparound that returned false, event-index
\* on since the evaluation before it: its batch did not hold the crossing of 65535
C9_Witness ==
    /\ last.op = "needs_notification" /\ ~last.val /\ last.err = "Ok"
    /\ q.event_idx_enabled /\ ev_cont
    /\ q.next_used = 2 /\ UsedEventOf(mem, q.size) = 65535

\* C3: whatever index n the polling driver can observe in the used ring's idx,
\* every add_used call made for a position below n has written its element: the
\* slot holds that element unless a later call has reused the slot.
C3_ElementVisibleBeforeIdx ==
    \A i \in 1..Len(elem_log) :
        (PosBelow(elem_log[i].pos, UsedIdxOf(mem)) /\ LastInSlot(elem_log, i, q.size)) =>
            UsedElemOf(mem, elem_log[i].pos % q.size) = [id |-> elem_log[i].id, len |-> elem_log[i].len]

\* C3 witness: the driver has observed idx 0 after the wraparound while the device
\* is inside its next add_used, the element written and the idx not yet stored
C3_Witness ==
    /\ dev_pc = "add_used_2"
    /\ Len(elem_log) = 3
    /\ drv_seen = 0 /\ UsedIdxOf(mem) = 0
    /\ elem_log[3].pos = 0
    /\ q.size = 2

\* C4: no lost wakeup: the device is never outside its loop with unconsumed
\* entries (avail idx # next_avail) unless a driver notification is pending or
\* the driver has yet to decide and will notify.
C4_NoLostWakeup ==
    (dev_pc = "idle" /\ AvailIdxOf(mem) # q.next_avail) =>
        (kick \/ (drv_pc \in {"publish", "check"} /\ DriverWouldNotify))

\* C4 witness: the device left the loop with event-index on, and the driver has
\* since published over the wraparound and not yet decided
C4_Witness ==
    /\ dev_pc = "idle" /\ ~kick
    /\ q.event_idx_enabled
    /\ drv_pc = "check"
    /\ q.next_avail = 65535 /\ AvailIdxOf(mem) = 0

\* C5: enable_notification arms notifications (flags = 0, or avail_event =
\* next_avail with event-index on), leaves the queue as it was, and returns true
\* iff the avail idx in memory differs from next_avail.
C5_EnableReportsGap ==
    [][(last'.op = "enable_notification" /\ last'.err = "Ok") =>
          /\ last'.val <=> (AvailIdxOf(mem') # q.next_avail)
          /\ IF q.event_idx_enabled
             THEN AvailEventOf(mem', q.size) = q.next_avail
             ELSE UsedFlagsOf(mem') = 0
          /\ q' = q]_vars

\* C5 witness: enable_notification returned true for a gap across the wraparound
C5_Witness ==
    /\ last.op = "enable_notification" /\ last.err = "Ok" /\ last.val
    /\ q.event_idx_enabled
    /\ q.next_avail = 65535 /\ AvailIdxOf(mem) = 1
    /\ AvailEventOf(mem, q.size) = 65535

\* C5 witness, the other way: it returned false with next_avail equal to avail idx
C5_WitnessNoGap ==
    /\ last.op = "enable_notification" /\ last.err = "Ok" /\ ~last.val
    /\ q.next_avail = 1 /\ AvailIdxOf(mem) = 1

\* C8 as stated: in the sweep with used_event = 5 and num_added = 1,
\* needs_notification returns true only at next_used == 5 and 5 + 65536.
C8_AsStated ==
    (sweep >= 0 /\ UsedEventOf(mem, q.size) = 5) =>
        (last.val <=> sweep \in {5, 5 + 65536})

\* C8 amended: in the sweep with used_event = 5 and num_added = 1,
\* needs_notification returns true only at next_used == 6 and 6 + 65536; in
\* general, and with the used_event = 4 of the test, only at used_event + 1 and
\* used_event + 1 + 65536.
C8_SweepTrueOnlyPastThreshold ==
    sweep >= 0 =>
        LET past == UsedEventOf(mem, q.size) + 1
        IN  last.err = "Ok" /\ (last.val <=> sweep \in {past, past + 65536})

\* C8 witness: with used_event = 5 the sweep returned true at 6 + 65536, past
\* the wraparound
C8_Witness ==
    /\ sweep = 6 + 65536 /\ last.val /\ q.next_used = 6
    /\ UsedEventOf(mem, q.size) = 5

\* C10: iter reads avail idx once: the iterator ends at the avail idx in memory
\* when iter was called and never re-reads it; each call of next yields the head
\* stored at ring position next_avail mod size and advances next_avail by one,
\* and yields nothing, leaving the queue alone, once next_avail equals that index.
C10_IterYieldsUpToAvailIdx ==
    [][/\ (last'.op = "iter" /\ last'.err = "Ok") =>
              (it' # None /\ it'.last_index = AvailIdxOf(mem) /\ q' = q)
       /\ (it # None /\ it' # None) => it'.last_index = it.last_index
       /\ (last'.op = "iter_next") =>
              IF q.next_avail # it.last_index
              THEN /\ last'.val
                   /\ last'.head = AvailRingOf(mem, q.next_avail % q.size)
                   /\ q' = [q EXCEPT !.next_avail = (q.next_avail + 1) % 65536]
              ELSE ~last'.val /\ q' = q]_vars

\* C10 witness: a pass that yielded three chains over the wraparound and then
\* ended at the index iter had read, the driver having advanced avail idx since
C10_Witness ==
    /\ last.op = "iter_next" /\ ~last.val
    /\ it # None /\ it.last_index = 1
    /\ nyield = 3 /\ q.next_avail = 1
    /\ AvailIdxOf(mem) = 2


\* C11 as stated: once the driver has put avail idx behind next_avail, a pass of
\* iter yields no chain and leaves next_avail where it was.
C11_AsStated ==
    [][(last'.op = "iter_next" /\ it # None
          /\ Wrap16(q.next_avail - it.last_index) \in 1..(MaxAdds + WrapMargin))
       => (~last'.val /\ q'.next_avail = q.next_avail)]_vars

\* n is a power of two that fits a u16
IsPow2(n) == \E k \in 0..15 : n = 2^k

\* C13: set_size(s) sets size to s when 0 < s <= max_size and s is a power of two,
\* and otherwise leaves the whole queue as it was (s = 0 included).
C13_SetSizeAcceptsOnlyValid ==
    [][\A size \in Sizes :
          SetSize(size) =>
              IF 0 < size /\ size <= q.max_size /\ IsPow2(size)
              THEN q' = [q EXCEPT !.size = size]
              ELSE q' = q]_vars

\* C13 witness: a queue offered with max_size 3 whose driver has selected size 2,
\* the only way to a size other than max_size
C13_Witness ==
    q.max_size = 3 /\ q.size = 2 /\ q.ready

\* the address a setter combines from the halves written and the halves kept
Combined(old, low, high) ==
    <<IF low = None THEN old[1] ELSE low[1], IF low = None THEN old[2] ELSE low[2],
      IF high = None THEN old[3] ELSE high[1], IF high = None THEN old[4] ELSE high[2]>>

\* C14: each address setter stores the combined 64-bit address when it is
\* aligned (16, 2 and 4 bytes) and leaves the queue alone when it is not; the
\* three ring addresses are aligned after every step, resets included.
C14_SettersKeepAlignment ==
    [][/\ \A low \in DescLows \cup {None}, high \in Highs :
              SetDescTableAddress(low, high) =>
                  LET a == Combined(q.desc_table, low, high)
                  IN  q' = IF a[1] % 16 = 0 THEN [q EXCEPT !.desc_table = a] ELSE q
       /\ \A low \in AvailLows \cup {None}, high \in Highs :
              SetAvailRingAddress(low, high) =>
                  LET a == Combined(q.avail_ring, low, high)
                  IN  q' = IF a[1] % 2 = 0 THEN [q EXCEPT !.avail_ring = a] ELSE q
       /\ \A low \in UsedLows \cup {None}, high \in Highs :
              SetUsedRingAddress(low, high) =>
                  LET a == Combined(q.used_ring, low, high)
                  IN  q' = IF a[1] % 4 = 0 THEN [q EXCEPT !.used_ring = a] ELSE q
       /\ q'.desc_table[1] % 16 = 0 /\ q'.avail_ring[1] % 2 = 0 /\ q'.used_ring[1] % 4 = 0]_vars

\* C14 witness: the used ring address written as two halves, the low half kept
\* through a misaligned write, beside a descriptor table address of all ones
C14_Witness ==
    /\ q.used_ring = <<UsedBase, 0, 65535, 65535>>
    /\ q.desc_table = <<65520, 65535, 65535, 65535>>
    /\ q.avail_ring = <<AvailBase, 0, 0, 0>>

\* every byte of the region [base, base + n) is an address of the memory
RegionInRange(base, n) ==
    IsLow(base) /\ \A i \in 0..(n - 1) : (AddrInt(base) + i) \in MemAddrs

\* C15 as stated: for a size that is a power of two and at most max_size,
\* is_valid returns true iff ready is set and the descriptor table (16 * size
\* bytes), the available ring (6 + 2 * size) and the used ring (6 + 8 * size)
\* each lie entirely within the memory.
C15_AsStated ==
    (last.op = "is_valid" /\ IsPow2(q.size) /\ q.size <= q.max_size) =>
        (last.val <=> /\ q.ready
                      /\ RegionInRange(q.desc_table, 16 * q.size)
                      /\ RegionInRange(q.avail_ring, 6 + 2 * q.size)
                      /\ RegionInRange(q.used_ring, 6 + 8 * q.size))

\* C18 as stated: in every state reachable from new(max_size), for any max_size,
\* 0 < size <= max_size and size is a power of two.
C18_AsStated ==
    0 < q.size /\ q.size <= q.max_size /\ IsPow2(q.size)

\* the loop has come to its end with next_avail at avail idx and next_used
\* advanced by as much as next_avail
LoopDrained ==
    /\ q.next_avail = AvailIdxOf(mem)
    /\ Wrap16(q.next_used - q0.next_used) = Wrap16(q.next_avail - q0.next_avail)

\* C12: when the loop exits (enable_notification returned false): if the driver
\* stored no avail idx while it ran, it made exactly one pass; if the driver
\* advanced avail idx once, between the drain of the first pass and its
\* enable_notification, it made exactly two; either way next_avail equals avail
\* idx and next_used has advanced by the same count as next_avail.
C12_LoopPasses ==
    dev_pc = "done" =>
        /\ adv = <<>> => (passes = 1 /\ LoopDrained)
        /\ (Len(adv) = 1 /\ adv[1].pc = "enable" /\ adv[1].pass = 1
              /\ adv[1].to = Wrap16(adv[1].from + 1)) => (passes = 2 /\ LoopDrained)

\* C12 witness: the loop has exited after two passes over the wraparound, the
\* driver having advanced avail idx from 0 to 1 before the first enable_notification
C12_Witness ==
    /\ dev_pc = "done" /\ passes = 2
    /\ Len(adv) = 1 /\ adv[1].pc = "enable" /\ adv[1].pass = 1
    /\ adv[1].from = 0 /\ adv[1].to = 1
    /\ q0.next_avail = 65534 /\ q.next_avail = 1
    /\ q0.next_used = 0 /\ q.next_used = 3

\* C19: whatever the driver stores in avail idx, used_event and the available
\* ring, every call of iter, the iterator's next, add_used, enable_notification,
\* disable_notification and needs_notification returns a value or one of the
\* error results; none panics.
C19_NoPanic ==
    /\ last.op \in {"add_used", "iter", "iter_next", "enable_notification",
                    "disable_notification", "needs_notification"} =>
          last.err \in {"Ok", "InvalidDescriptorIndex", "AddressOverflow", "GuestMemory"}
    /\ (last.op = "add_used" /\ last.head >= q.size) => last.err = "InvalidDescriptorIndex"
    /\ last.op \in {"iter", "iter_next", "enable_notification", "disable_notification",
                    "needs_notification"} => last.err = "Ok"

\* C19 witness: add_used has returned an error for the value 65535 read from the
\* available ring, in a pass the device made for an avail idx far from next_avail
C19_Witness ==
    /\ last.op = "add_used" /\ last.err = "InvalidDescriptorIndex" /\ last.head = 65535
    /\ Len(adv) = 1 /\ Wrap16(adv[1].to - q0.next_avail) > 32000

\* C16: reset yields exactly the state new(max_size) produces, whatever the
\* queue held: ready false, size max_size, the ring addresses at their defaults,
\* the three counters zero, event-index off, max_size as it was; guest memory
\* is untouched.
C16_ResetRestoresNew ==
    [][last'.op = "reset" =>
          /\ q' = new(q.max_size)
          /\ q' = [max_size |-> q.max_size, size |-> q.max_size, ready |-> FALSE,
                   desc_table |-> <<0, 0, 0, 0>>, avail_ring |-> <<0, 0, 0, 0>>,
                   used_ring |-> <<0, 0, 0, 0>>, next_avail |-> 0, next_used |-> 0,
                   event_idx_enabled |-> FALSE, num_added |-> 0]
          /\ mem' = mem]_vars

\* C16 witness: reset has been applied to a ready queue of size 1 with its ring
\* addresses set, event-index on, and all three counters away from zero
C16_Witness ==
    /\ last.op = "reset" /\ q = new(2)
    /\ q0 # None /\ q0.ready /\ q0.size = 1 /\ q0.event_idx_enabled
    /\ q0.used_ring = <<UsedBase, 0, 0, 0>>
    /\ q0.next_avail = 65535 /\ q0.next_used = 3 /\ q0.num_added = 2

\* the operations the ready flag is said to gate
GatedOps ==
    {"add_used", "iter", "avail_idx", "used_idx", "enable_notification",
     "disable_notification", "needs_notification"}

\* C17 as stated: while ready is false, no queue operation writes guest memory.
C17_AsStated ==
    [][(~q.ready /\ last'.op \in GatedOps) => mem' = mem]_vars

\* C21: with event-index on, needs_notification returns exactly the truth value
\* of ((next_used - used_event - 1) mod 2^16) < ((next_used - old) mod 2^16),
\* old = (next_used - num_added) mod 2^16; with num_added = 1 that is true
\* exactly when next_used = (used_event + 1) mod 2^16.
C21_WrappingComparison ==
    [][(last'.op = "needs_notification" /\ q.event_idx_enabled /\ last'.err = "Ok") =>
          LET ue == UsedEventOf(mem, q.size)
              old == (q.next_used - q.num_added) % 65536
          IN  /\ last'.val <=> ((q.next_used - ue - 1) % 65536 < (q.next_used - old) % 65536)
              /\ q.num_added = 1 => (last'.val <=> q.next_used = (ue + 1) % 65536)]_vars

\* C21 witness: one add_used took a queue restored at 65534 to 65535, the driver's
\* used_event is 65534, and the needs_notification that followed returned true
C21_Witness ==
    /\ last.op = "needs_notification" /\ last.err = "Ok" /\ last.val
    /\ q.event_idx_enabled
    /\ q.next_used = 65535 /\ q.num_added = 0
    /\ UsedEventOf(mem, q.size) = 65534

\* C22 as stated: after every needs_notification call that returns a result,
\* with event-index on or off, num_added is 0; so num_added is always the number
\* of add_used calls that succeeded since the last needs_notification call.
C22_AsStated ==
    [][/\ (last'.op = "needs_notification" /\ last'.err = "Ok") => q'.num_added = 0
       /\ q'.num_added = Cardinality(batch') % 65536]_vars

\* C23 as stated: with event-index on, a needs_notification call made with no
\* add_used since the previous needs_notification call returns false, whatever
\* next_used and used_event are.
C23_AsStated ==
    [][(last'.op = "needs_notification" /\ last'.err = "Ok"
          /\ q.event_idx_enabled /\ batch = {}) => ~last'.val]_vars

\* guest memory is the same in the two states outside the u16 at address a
SameOutsideU16(m1, m2, a) == \A x \in MemAddrs \ {a, a + 1} : m1[x] = m2[x]

\* C24: with event-index off, disable_notification stores the NO_NOTIFY flag
\* value (1) in the flags field of the used ring and enable_notification stores
\* 0 there, so the field reflects the last of these calls; neither writes
\* anywhere else in guest memory nor changes any field of the queue.
C24_FlagReflectsLastCall ==
    [][(last'.op \in {"disable_notification", "enable_notification"}
          /\ ~q.event_idx_enabled /\ last'.err = "Ok") =>
          /\ UsedFlagsOf(mem') = (IF last'.op = "disable_notification" THEN 1 ELSE 0)
          /\ SameOutsideU16(mem, mem', UsedBase)
          /\ q' = q]_vars

\* C24 witness: with event-index off, disable_notification was the last call and
\* the flags field holds NO_NOTIFY
C24_Witness ==
    /\ last.op = "disable_notification" /\ last.err = "Ok"
    /\ ~q.event_idx_enabled
    /\ UsedFlagsOf(mem) = 1

\* C25: with event-index on, disable_notification always succeeds and writes
\* nothing to guest memory; enable_notification writes next_avail, not the avail
\* idx it observes, into the avail_event field that follows the size elements
\* of the used ring, and writes nowhere else, the used ring's flags included;
\* neither changes the queue.
C25_EventIdxSuppression ==
    [][q.event_idx_enabled =>
          /\ last'.op = "disable_notification" =>
                 last'.err = "Ok" /\ mem' = mem /\ q' = q
          /\ (last'.op = "enable_notification" /\ last'.err = "Ok") =>
                 LET a == AddrInt(q.used_ring) + 4 + 8 * q.size
                 IN  /\ U16At(mem', a) = q.next_avail
                     /\ SameOutsideU16(mem, mem', a)
                     /\ UsedFlagsOf(mem') = UsedFlagsOf(mem)
                     /\ q' = q]_vars

\* C25 witness: with event-index on, enable_notification has written next_avail
\* = 65535 into avail_event while the avail idx it observed is 0 and the flags
\* field still holds the NO_NOTIFY an earlier disable_notification left there
C25_Witness ==
    /\ last.op = "enable_notification" /\ last.err = "Ok" /\ last.val
    /\ q.event_idx_enabled /\ q.used_ring = ToAddr(UsedBase)
    /\ q.next_avail = 65535 /\ AvailIdxOf(mem) = 0
    /\ AvailEventOf(mem, q.size) = 65535
    /\ UsedFlagsOf(mem) = 1

\* C25 witness, disabling: with event-index on, disable_notification returned Ok
\* on a queue whose used ring, at its default address, is not in guest memory
C25_WitnessDisable ==
    /\ last.op = "disable_notification" /\ last.err = "Ok"
    /\ q.event_idx_enabled /\ q.used_ring = <<0, 0, 0, 0>>

\* base + n leaves the 64-bit address space, for n below 2^16: the three upper
\* limbs of base are all ones and the lowest limb carries
Overflows64(base, n) ==
    base[4] = 65535 /\ base[3] = 65535 /\ base[2] = 65535 /\ base[1] + n >= 65536

\* C26: is_valid returns false, and does not panic, whenever the base address
\* of a ring plus that ring's size in bytes (16 * size for the descriptor table,
\* 6 + 2 * size for the available ring, 6 + 8 * size for the used ring)
\* overflows the 64-bit address space.
C26_OverflowIsInvalid ==
    [][(last'.op = "is_valid"
          /\ (\/ Overflows64(q.desc_table, 16 * q.size)
              \/ Overflows64(q.avail_ring, 6 + 2 * q.size)
              \/ Overflows64(q.used_ring, 6 + 8 * q.size))) =>
          (last'.err = "Ok" /\ last'.val = FALSE /\ q' = q /\ mem' = mem)]_vars

\* C26 witness: is_valid returned false for a ready queue of size 2 whose
\* descriptor table is at 2^64 - 16, the other two rings being inside the memory
C26_Witness ==
    /\ last.op = "is_valid" /\ last.err = "Ok" /\ ~last.val
    /\ q.ready /\ q.size = 2
    /\ q.desc_table = <<65520, 65535, 65535, 65535>>
    /\ q.avail_ring = ToAddr(AvailBase) /\ q.used_ring = ToAddr(UsedBase)

\* the 32-bit halves a driver may write that keep a ring address aligned
AlignedLows(lows, align) == {low \in lows : low[1] % align = 0}
SomeHighs == Highs \ {None}

\* what the two writes (low only, then high only) and (high only, then low
\* only) leave in the field f of the queue s, through the setter set
TwoWrites(set(_, _, _), s, low, high) ==
    <<set(set(s, low, None), None, high), set(set(s, None, high), low, None)>>

\* C27: each address setter takes the half it is not given from the stored
\* address: a write of the high half alone is never rejected and keeps the low
\* half, a write of the low half alone keeps the high half; writing an aligned
\* 64-bit address as two writes, low only and high only, stores (high << 32) |
\* low whichever write comes first.
C27_HalvesIndependent ==
    [][/\ \A high \in SomeHighs :
            /\ SetDescTableAddress(None, high) =>
                   q'.desc_table = <<q.desc_table[1], q.desc_table[2], high[1], high[2]>>
            /\ SetAvailRingAddress(None, high) =>
                   q'.avail_ring = <<q.avail_ring[1], q.avail_ring[2], high[1], high[2]>>
            /\ SetUsedRingAddress(None, high) =>
                   q'.used_ring = <<q.used_ring[1], q.used_ring[2], high[1], high[2]>>
       /\ \A low \in AlignedLows(DescLows, 16) :
            SetDescTableAddress(low, None) =>
                q'.desc_table = <<low[1], low[2], q.desc_table[3], q.desc_table[4]>>
       /\ \A low \in AlignedLows(AvailLows, 2) :
            SetAvailRingAddress(low, None) =>
                q'.avail_ring = <<low[1], low[2], q.avail_ring[3], q.avail_ring[4]>>
       /\ \A low \in AlignedLows(UsedLows, 4) :
            SetUsedRingAddress(low, None) =>
                q'.used_ring = <<low[1], low[2], q.used_ring[3], q.used_ring[4]>>
       /\ \A high \in SomeHighs :
            /\ \A low \in AlignedLows(DescLows, 16) :
                 LET t == TwoWrites(set_desc_table_address, q, low, high)
                 IN  /\ t[1].desc_table = <<low[1], low[2], high[1], high[2]>>
                     /\ t[2] = t[1]
            /\ \A low \in AlignedLows(AvailLows, 2) :
                 LET t == TwoWrites(set_avail_ring_address, q, low, high)
                 IN  /\ t[1].avail_ring = <<low[1], low[2], high[1], high[2]>>
                     /\ t[2] = t[1]
            /\ \A low \in AlignedLows(UsedLows, 4) :
                 LET t == TwoWrites(set_used_ring_address, q, low, high)
                 IN  /\ t[1].used_ring = <<low[1], low[2], high[1], high[2]>>
                     /\ t[2] = t[1]]_vars

\* C27 witness: the descriptor table address holds the low half 0 of new, which
\* no write of a low half gives it, under a high half of all ones written
\* alone; the used ring address holds a low half and a high half of all ones
C27_Witness ==
    /\ q.desc_table = <<0, 0, 65535, 65535>>
    /\ q.used_ring = <<UsedBase, 0, 65535, 65535>>
    /\ q.avail_ring = <<0, 0, 0, 0>>

\* C28: iter reads avail idx before the iterator reads any entry of the ring:
\* beside a driver that writes an entry and only then publishes the incremented
\* avail idx, every head the iterator yields is the one the driver wrote for
\* that position, and the position is below the avail idx that iter observed,
\* so the write came before the publication the device saw.
C28_YieldsOnlyPublished ==
    [][(last'.op = "iter_next" /\ last'.val) =>
          /\ <<q.next_avail, last'.head>> \in wrote
          /\ Cardinality({w \in wrote : w[1] = q.next_avail}) = 1
          /\ Wrap16(it.last_index - q.next_avail - 1) < q.size
          /\ Wrap16(AvailIdxOf(mem) - it.last_index) <= q.size]_vars

\* C28 witness: the iterator has yielded head 1 from position 65535, the last
\* below the avail idx 0 that iter observed, while the driver has since written
\* and published the entry of position 0, which this iterator has not observed
C28_Witness ==
    /\ last.op = "iter_next" /\ last.val /\ last.head = 1
    /\ it # None /\ q.next_avail = 0 /\ q.size = 2
    /\ it.last_index = 0 /\ AvailIdxOf(mem) = 1
    /\ wrote = {<<0, 0>>}

\* the n bytes at base + off are all in guest memory
MappedAt(base, off, n) ==
    IsLow(base) /\ \A i \in 0..(n - 1) : (AddrInt(base) + off + i) \in MemAddrs

\* C29: add_used reports every failure as an error result and never panics:
\* InvalidDescriptorIndex when head_index >= size (a size of 0 included),
\* AddressOverflow when the used ring address plus the slot offset 4 + 8 *
\* (next_used mod size) leaves the address space, a guest-memory error when the
\* eight bytes of the element or the two bytes of the idx are not all in guest
\* memory, and Ok otherwise.
C29_AddUsedErrors ==
    [][last'.op = "add_used" =>
          last'.err =
              IF last'.head >= q.size THEN "InvalidDescriptorIndex"
              ELSE LET off == 4 + 8 * (q.next_used % q.size)
                   IN  IF Overflows64(q.used_ring, off) THEN "AddressOverflow"
                       ELSE IF ~MappedAt(q.used_ring, off, 8) THEN "GuestMemory"
                       ELSE IF ~MappedAt(q.used_ring, 2, 2) THEN "GuestMemory"
                       ELSE "Ok"]_vars

\* C29 witness: add_used returned a guest-memory error from the idx store, after
\* it had written its element: the used ring starts four bytes below the memory
C29_Witness ==
    /\ last.op = "add_used" /\ last.err = "GuestMemory"
    /\ q.used_ring = ToAddr(MemBase - 4)
    /\ U16At(mem, MemBase + 4) = 4096
    /\ q.next_used = 1

\* C29 witness, overflow: add_used returned AddressOverflow for a used ring at
\* the last aligned address of the address space
C29_WitnessOverflow ==
    /\ last.op = "add_used" /\ last.err = "AddressOverflow"
    /\ q.used_ring = <<65532, 65535, 65535, 65535>>

\* C29 witness, size 0: add_used returned InvalidDescriptorIndex for head 0
C29_WitnessSizeZero ==
    /\ last.op = "add_used" /\ last.err = "InvalidDescriptorIndex"
    /\ last.head = 0 /\ q.size = 0

\* C30: Descriptor::next returns no value for a packed descriptor: the call
\* ends in unimplemented, whatever the descriptor holds and whatever the
\* setters have stored in it; for a split descriptor it returns the stored
\* next field, the last two bytes of the variant as read, which no setter
\* changes. The variant of a Descriptor read from guest memory is the one its
\* tag names.
C30_PackedNextUnimplemented ==
    [][/\ last'.op = "read_obj" =>
             LET at == DescBase + 24 * chain'.index + 8
             IN  /\ (U16At(mem, at - 8) = 0 /\ U16At(mem, at - 6) = 0) =>
                        /\ chain'.desc.kind = "SplitDescriptor"
                        /\ chain'.desc.next = U16At(mem, at + 14)
                 /\ (U16At(mem, at - 8) = 1 /\ U16At(mem, at - 6) = 0) =>
                        chain'.desc.kind = "PackedDescriptor"
       /\ (last'.op \in {"set_flags", "set_addr", "set_len", "set_id"} /\ chain.desc.kind = "SplitDescriptor") =>
             chain'.desc.kind = "SplitDescriptor" /\ chain'.desc.next = chain.desc.next
       /\ (last'.op \in {"set_flags", "set_addr", "set_len", "set_id"} /\ chain.desc.kind = "PackedDescriptor") =>
             chain'.desc.kind = "PackedDescriptor"
       /\ last'.op = "next" =>
             IF chain.desc.kind = "PackedDescriptor"
             THEN last'.err = "Unimplemented" /\ ~last'.val
             ELSE chain.desc.kind = "SplitDescriptor" =>
                     last'.err = "Ok" /\ last'.val /\ last'.head = chain.desc.next]_vars

\* C30 witness: next on a packed descriptor ended in unimplemented although the
\* two bytes a split descriptor would keep its next field in hold 65535
C30_Witness ==
    /\ last.op = "next" /\ last.err = "Unimplemented"
    /\ chain.index = 0 /\ chain.desc.kind = "PackedDescriptor"
    /\ U16At(mem, DescBase) = 1
    /\ U16At(mem, DescBase + 8 + 14) = 65535 /\ chain.desc.flags = 65535

\* C30 witness, split: next on a split descriptor returned its next field 65535
\* after set_flags had set VRING_DESC_F_NEXT in the value
C30_WitnessSplit ==
    /\ last.op = "next" /\ last.err = "Ok" /\ last.val /\ last.head = 65535
    /\ chain.index = 1 /\ chain.desc.kind = "SplitDescriptor"
    /\ U16At(mem, DescBase + 24) = 0
    /\ U16At(mem, DescBase + 24 + 8 + 12) = 0 /\ chain.desc.flags = 1
    /\ U16At(mem, DescBase + 24 + 8 + 14) = 65535

\* C30 witness, neither variant: next was called on a value read under tag 2,
\* which is undefined behaviour and no case of the claim
C30_WitnessNeither ==
    /\ last.op = "next" /\ last.err = "Undefined" /\ dev_pc = "undefined"
    /\ chain.desc.kind = "Invalid" /\ chain.desc.w12 = 0 /\ chain.desc.w14 = 1
    /\ U16At(mem, DescBase + 24 * chain.index) = 2

\* C31 as stated: whenever add_used returns an error of any kind, next_used and
\* num_added have the values they had before the call.
C31_AsStated ==
    [][(last'.op = "add_used" /\ last'.err # "Ok") =>
          (q'.next_used = q.next_used /\ q'.num_added = q.num_added)]_vars

\* C32: over a used ring whose idx field is in guest memory and holds the used
\* index the queue starts from, after any sequence of add_used calls, failed
\* ones included, the idx field in guest memory equals next_used, also when the
\* 16-bit counter has wrapped from 65535 to 0.
C32_UsedIdxIsNextUsed ==
    UsedIdxOf(mem) = q.next_used

\* C32 witness: three add_used calls from 65534 have taken next_used and the idx
\* field across the wraparound to 1
C32_Witness ==
    /\ last.op = "add_used" /\ last.err = "Ok"
    /\ batch = {65534, 65535, 0}
    /\ q.next_used = 1 /\ UsedIdxOf(mem) = 1

\* C32 witness, failed call: add_used has rejected a head index after one call
\* had succeeded, and both indices are still 1
C32_WitnessRejected ==
    /\ last.op = "add_used" /\ last.err = "InvalidDescriptorIndex"
    /\ batch = {0}
    /\ q.next_used = 1 /\ UsedIdxOf(mem) = 1

\* C33: add_used never writes outside the used ring and never divides by zero:
\* with size 0 every call returns InvalidDescriptorIndex and changes neither the
\* queue nor the memory; every byte a call changes lies in the idx field or in
\* one of the size slots of the ring; and a call that returns Ok has written
\* its element into slot next_used mod size, which is below size.
C33_SlotInRing ==
    [][last'.op = "add_used" =>
          /\ q.size = 0 =>
                (last'.err = "InvalidDescriptorIndex" /\ mem' = mem /\ q' = q)
          /\ \A a \in MemAddrs :
                mem'[a] # mem[a] =>
                    /\ IsLow(q.used_ring)
                    /\ a >= AddrInt(q.used_ring) + 2
                    /\ a < AddrInt(q.used_ring) + 4 + 8 * q.size
          /\ last'.err = "Ok" =>
                LET slot == q.next_used % q.size
                    at == AddrInt(q.used_ring) + 4 + 8 * slot
                IN  /\ slot < q.size
                    /\ U16At(mem', at) = last'.head /\ U16At(mem', at + 2) = 0
                    /\ <<U16At(mem', at + 4), U16At(mem', at + 6)>> = last'.len]_vars

\* C33 witness: on a queue of size 1, the second add_used has written slot 0
\* again and the bytes behind the one slot of the ring are still zero
C33_Witness ==
    /\ last.op = "add_used" /\ last.err = "Ok"
    /\ q.size = 1 /\ q.next_used = 2 /\ q.used_ring = ToAddr(UsedBase)
    /\ UsedElemOf(mem, 0).len = <<4096, 0>>
    /\ UsedElemOf(mem, 1).len = <<0, 0>>

\* C33 witness, size 0: on a queue made by new(0), add_used has returned
\* InvalidDescriptorIndex over a used ring in guest memory, which is untouched
C33_WitnessSizeZero ==
    /\ last.op = "add_used" /\ last.err = "InvalidDescriptorIndex"
    /\ q.max_size = 0 /\ q.size = 0 /\ q.used_ring = ToAddr(UsedBase)
    /\ mem = ZeroMem

\* C34: go_to_previous_position decrements next_avail by exactly one with 16-bit
\* wraparound (0 becomes 65535) and changes nothing else; called right after
\* the iterator yielded a chain it restores the queue to what it was before the
\* yield, and, the chain being one the driver made available, the next yield of
\* an iterator made after it gives the same head again and advances next_avail
\* by one.
C34_RewindReplays ==
    [][/\ last'.op = "go_to_previous_position" =>
             /\ q' = [q EXCEPT !.next_avail = (q.next_avail + 65535) % 65536]
             /\ mem' = mem
             /\ dev_pc = "yielded" => q' = q0
       /\ (dev_pc = "rewound" /\ <<q0.next_avail, dev_arg.head>> \in wrote
              /\ last'.op = "iter_next") =>
             /\ q = q0
             /\ last'.val /\ last'.head = dev_arg.head
             /\ q'.next_avail = (q0.next_avail + 1) % 65536]_vars

\* C34 witness: the chain at position 65535, head 1, was yielded, put back by a
\* call that took next_avail from 0 to 65535, and yielded again
C34_Witness ==
    /\ last.op = "iter_next" /\ last.val /\ last.head = 1
    /\ dev_pc = "yielded" /\ nyield = 1 /\ passes = 1
    /\ q0 # None /\ q0.next_avail = 65535 /\ q.next_avail = 0
    /\ wrote = {<<65534, 0>>, <<65535, 1>>}

\* C34 witness, wraparound: go_to_previous_position was called right after a
\* yield with next_avail 0, which is now 65535
C34_WitnessWrap ==
    /\ last.op = "go_to_previous_position" /\ dev_pc = "rewound"
    /\ q.next_avail = 65535 /\ q = q0 /\ dev_arg.head = 1

\* C35: pop_descriptor_chain returns None and leaves the queue unchanged when the
\* avail idx cannot be read (avail_ring + 2 overflows, or its two bytes are not
\* in guest memory); otherwise it returns what the first next of a new iterator
\* returns: nothing, with the queue unchanged, when next_avail equals the avail
\* idx, when size is 0 or when the ring entry cannot be read, and else the head
\* stored in slot next_avail mod size, with next_avail advanced by one and
\* nothing else changed. The memory is never written.
C35_PopIsFirstOfIter ==
    [][last'.op = "pop_descriptor_chain" =>
          /\ mem' = mem
          /\ IF Overflows64(q.avail_ring, 2) \/ ~MappedAt(q.avail_ring, 2, 2)
             THEN ~last'.val /\ q' = q
             ELSE LET idx == U16At(mem, AddrInt(q.avail_ring) + 2)
                      off == 4 + 2 * (q.next_avail % q.size)
                  IN  IF \/ idx = q.next_avail
                         \/ q.size = 0
                         \/ ~MappedAt(q.avail_ring, off, 2)
                      THEN ~last'.val /\ q' = q
                      ELSE /\ last'.val
                           /\ last'.head = U16At(mem, AddrInt(q.avail_ring) + off)
                           /\ q' = [q EXCEPT !.next_avail = (q.next_avail + 1) % 65536]]_vars

\* C35 witness: pop_descriptor_chain returned None over an available ring at
\* the top of the address space, whose idx address overflows, with next_avail
\* still at 65534
C35_Witness ==
    /\ last.op = "pop_descriptor_chain" /\ ~last.val
    /\ q.avail_ring = <<65534, 65535, 65535, 65535>>
    /\ q.next_avail = 65534

\* C35 witness, rejected load: None from a new queue whose available ring is at
\* the default address 0, outside guest memory
C35_WitnessRejected ==
    /\ last.op = "pop_descriptor_chain" /\ ~last.val
    /\ q.avail_ring = <<0, 0, 0, 0>> /\ q.size = MaxSize
    /\ q.next_avail = 65534

\* C35 witness, a chain: the head 1 stored at position 65535 was popped and
\* next_avail wrapped to 0, below the avail idx 1
C35_WitnessChain ==
    /\ last.op = "pop_descriptor_chain" /\ last.val /\ last.head = 1
    /\ q.avail_ring = ToAddr(AvailBase) /\ q.size = 2
    /\ q.next_avail = 0 /\ AvailIdxOf(mem) = 1
    /\ AvailRingOf(mem, 1) = 1 /\ AvailRingOf(mem, 0) = 0

\* C35 witness, unreadable entry: the avail idx, the last two bytes of guest
\* memory, reads 0 and differs from next_avail, but the ring entry lies behind
\* the memory, and pop_descriptor_chain returned None
C35_WitnessEntry ==
    /\ last.op = "pop_descriptor_chain" /\ ~last.val
    /\ q.avail_ring = ToAddr(MemEnd - 4) /\ q.size = 2
    /\ q.next_avail = 65534

====
